---- MODULE Spec2Model ----
(***************************************************************************)
(* A model of the maktab reader (js/main.js, js/modules/content.js,        *)
(* js/modules/ui.js): the chapter manifest chain, the chapter click        *)
(* handler, loadMarkdown and the DOM passes it runs on a rendered chapter. *)
(*                                                                         *)
(* Characters are modelled by their UTF-16 code unit, strings by sequences *)
(* of code units, DOM nodes by records and child lists by sequences.       *)
(***************************************************************************)
EXTENDS Integers, Sequences, FiniteSets, TLC

VARIABLES
    tempContainer,  \* content.js:172 the detached container the passes work on
    parsedTree,     \* the tree as innerHTML parsed it, before any pass (history)
    wrapPc,         \* position in loadMarkdown's processing: "parsed" | "wrapped"
    md,             \* content.js:164 the chapter text handed to the then-handler
    mdSections,     \* content.js:166 the pieces md.split returns, as ranges of md
    allCardsHtml,   \* content.js:167 the cards of the joined HTML, in order
    splitPc,        \* "text" | "rendered"
    manifestPc,     \* main.js:102 manifest chain: "fetching" | "parsing" | "done" | "failed"
    data,           \* main.js:104 the value res.json() resolved with
    chapterList,    \* main.js:18 the children of #chapter-list
    contentDiv,     \* content.js:12 the children of #markdown-content
    loads,          \* every loadMarkdown call so far, in call order
    fetches,        \* every fetch issued so far: the file names, in order
    consoleErrors,  \* every console.error entry so far
    clicks,         \* number of user clicks so far
    lastClick,      \* the latest click dispatched on a chapter item
    letterModalBody,   \* ui.js: content and class of #letter-modal-body
    overlayClasses,    \* class list of #letter-modal-overlay
    overlayClick,      \* click listeners of #letter-modal-overlay, in order
    windowKeydown,     \* keydown listeners of window, in order
    modalTimers,       \* pending setTimeout callbacks of ui.js, in set order
    modalOpen,         \* the latest of openLetterModal/closeLetterModal
    modalEvent,        \* the latest event handled by the overlay code
    storage,           \* localStorage: key -> stored string, or Null
    page,              \* settings.js: body classes, fonts, values of selects
    fxModules,         \* state of each effect module (fx/*.js)
    windowResize,      \* resize listeners of window, in order
    themeChange,       \* change listeners of #theme-select, in order
    documentMousemove, \* mousemove listeners of document, in order
    colorTimers,       \* pending 50 ms timeouts of handleThemeChange
    canvasDisplay,     \* style.display of #particle-canvas
    overlayCanvasDisplay,  \* style.display of #overlay-canvas
    currentFxName,     \* fx-controller.js:25
    settingsPc,        \* "idle" | "loading" | "settings" | "ready"
    fxEvent            \* the latest event handled by settings or effects

wrapVars == <<tempContainer, parsedTree, wrapPc>>
splitVars == <<md, mdSections, allCardsHtml, splitPc>>

appVars == <<manifestPc, data, chapterList, contentDiv, loads, fetches,
             consoleErrors, clicks, lastClick>>

modalVars == <<letterModalBody, overlayClasses, overlayClick, windowKeydown,
               modalTimers, modalOpen, modalEvent>>

fxVars == <<storage, page, fxModules, windowResize, themeChange,
            documentMousemove, colorTimers, canvasDisplay,
            overlayCanvasDisplay, currentFxName, settingsPc, fxEvent>>

vars == <<wrapVars, splitVars, appVars, modalVars, fxVars>>

(***************************************************************************)
(* Bounds                                                                  *)
(***************************************************************************)
MaxLen == 3     \* longest text of the enumerated text node
ShortLen == 1   \* longest text of the second, short text node
MaxTokens == 6  \* most tokens an enumerated chapter text is made of
MaxClicks == 3  \* most user clicks in a run
MaxPayload == 2    \* longest payload of a clicked card
MaxModalOps == 4   \* most events handled by the overlay code in a run
MaxFxOps == 3      \* most events after a page load's initialisation
MaxBlockLen == 3   \* longest text of the enumerated text node of a block

(***************************************************************************)
(* Strings                                                                 *)
(***************************************************************************)
RECURSIVE Concat(_)
\* String concatenation of a sequence of strings.
Concat(ss) == IF ss = <<>> THEN <<>> ELSE Head(ss) \o Concat(Tail(ss))

\* Array.prototype.map
SeqMap(Op(_), s) == [i \in 1..Len(s) |-> Op(s[i])]

\* parts.join(sep) for a sequence of strings.
RECURSIVE Join(_, _)
Join(parts, sep) ==
    IF Len(parts) = 0 THEN <<>>
    ELSE IF Len(parts) = 1 THEN parts[1]
    ELSE parts[1] \o sep \o Join(Tail(parts), sep)

RECURSIVE SplitOn(_, _)
\* String.prototype.split with a non-empty string separator.
SplitOn(S, sep) ==
    LET hits == {k \in 1..(Len(S) - Len(sep) + 1) :
                    SubSeq(S, k, k + Len(sep) - 1) = sep}
    IN  IF hits = {} THEN <<S>>
        ELSE LET k == CHOOSE x \in hits : \A y \in hits : x <= y
             IN  <<SubSeq(S, 1, k - 1)>>
                 \o SplitOn(SubSeq(S, k + Len(sep), Len(S)), sep)

\* Code units used in enumerated texts: U+05FF and U+0700 (just outside
\* the Arabic block), U+0600 and U+06FF (its two ends), and Latin x.
Alphabet == {1535, 1536, 1791, 1792, 120}

Texts(n) == UNION {[1..k -> Alphabet] : k \in 0..n}

(***************************************************************************)
(* content.js wrapArabicLetters                                            *)
(***************************************************************************)
ArabicLo == 1536   \* ؀
ArabicHi == 1791   \* ۿ

\* The character class [؀-ۿ].
IsArabic(c) == c >= ArabicLo /\ c <= ArabicHi

\* arabicSequenceRegex.test(part): some character of part is in the class.
arabicSequenceRegexTest(part) == \E i \in 1..Len(part) : IsArabic(part[i])

RECURSIVE MatchEnd(_, _)
\* Index just after the greedy match of [؀-ۿ]+ that starts at q
\* (S[q] is in the class).
MatchEndMut(S, q) == q + 1
MatchEnd(S, q) ==
    IF q <= Len(S) /\ IsArabic(S[q]) THEN MatchEnd(S, q + 1) ELSE q

RECURSIVE SplitFrom(_, _, _)
\* String.prototype.split with the capturing regex, from the state (p, q) of
\* the standard algorithm: p is the start of the pending piece, q the
\* position tried next.  A match pushes the piece before it and its capture.
SplitFromMut(S, p, q) ==
    IF q > Len(S) THEN <<SubSeq(S, p, Len(S))>>
    ELSE IF ~IsArabic(S[q]) THEN SplitFrom(S, p, q + 1)
    ELSE LET e == MatchEnd(S, q)
         IN  <<SubSeq(S, p, q - 1)>> \o SplitFrom(S, e, e)
SplitFrom(S, p, q) ==
    IF q > Len(S) THEN <<SubSeq(S, p, Len(S))>>
    ELSE IF ~IsArabic(S[q]) THEN SplitFrom(S, p, q + 1)
    ELSE LET e == MatchEnd(S, q)
         IN  <<SubSeq(S, p, q - 1), SubSeq(S, q, e - 1)>> \o SplitFrom(S, e, e)

\* text.split(arabicSequenceRegex)
SplitArabic(text) == SplitFrom(text, 1, 1)

\* DOM nodes.  type is nodeType (3 text, 1 element); id is the identity of a
\* node of the parsed tree (0 for a node created by a pass); src is, for a
\* created node, the id of the text node it replaces (0 otherwise); dir is
\* the dir attribute, direction and textAlign the two style properties.
TextNode(id, src, text) ==
    [type |-> 3, tag |-> "#text", cls |-> "", text |-> text, kids |-> <<>>,
     payload |-> <<>>, id |-> id, src |-> src, dir |-> "", direction |-> "",
     textAlign |-> ""]

Elem(id, tag, kids) ==
    [type |-> 1, tag |-> tag, cls |-> "", text |-> <<>>, kids |-> kids,
     payload |-> <<>>, id |-> id, src |-> 0, dir |-> "", direction |-> "",
     textAlign |-> ""]

\* The span created for an Arabic part: its label is the part, and its click
\* listener calls openLetterModal(part).
Card(src, part) ==
    [type |-> 1, tag |-> "span", cls |-> "arabic-letter-card", text |-> <<>>,
     kids |-> <<TextNode(0, src, part)>>, payload |-> part, id |-> 0,
     src |-> src, dir |-> "", direction |-> "", textAlign |-> ""]

RECURSIVE Fragment(_, _, _)
\* parts.forEach(...): the children appended to the fragment from part i on.
Fragment(parts, i, src) ==
    IF i > Len(parts) THEN <<>>
    ELSE LET part == parts[i]
         IN  (IF part = <<>> THEN <<>>
              ELSE IF arabicSequenceRegexTest(part) THEN <<Card(src, part)>>
              ELSE <<TextNode(0, src, part)>>)
             \o Fragment(parts, i + 1, src)

\* What stands in the place of a text node after its forEach step.
WrapTextNode(node) ==
    LET parts == SplitArabic(node.text)
    IN  IF Len(parts) > 1 THEN Fragment(parts, 1, node.id) ELSE <<node>>

RECURSIVE wrapArabicLetters(_)
RECURSIVE WrapChildNodes(_, _)
\* childNodes.forEach(...) from child i on: the resulting children.
WrapChildNodes(kids, i) ==
    IF i > Len(kids) THEN <<>>
    ELSE LET node == kids[i]
         IN  (IF node.type = 3 THEN WrapTextNode(node)
              ELSE IF node.type = 1 /\ node.tag # "code"
                   THEN <<wrapArabicLetters(node)>>
              ELSE <<node>>)
             \o WrapChildNodes(kids, i + 1)

wrapArabicLetters(element) ==
    [element EXCEPT !.kids = WrapChildNodes(element.kids, 1)]

(***************************************************************************)
(* Trees handed to wrapArabicLetters                                       *)
(***************************************************************************)
\* Parsed card trees: t is the enumerated text, u the short one.
Tree(shape, t, u) ==
    CASE shape = 1 ->
           Elem(1, "div", <<Elem(2, "p",
               <<TextNode(3, 0, t), Elem(4, "em", <<TextNode(5, 0, u)>>)>>)>>)
      [] shape = 2 ->
           Elem(1, "div", <<Elem(2, "p",
               <<TextNode(3, 0, u), Elem(4, "code", <<TextNode(5, 0, t)>>)>>)>>)
      [] shape = 3 ->
           Elem(1, "div",
               <<Elem(2, "pre", <<Elem(3, "code",
                     <<Elem(4, "em", <<TextNode(5, 0, t)>>)>>)>>),
                 Elem(6, "p", <<TextNode(7, 0, u)>>)>>)
      [] shape = 4 ->
           Elem(1, "div",
               <<Elem(2, "li", <<TextNode(3, 0, t),
                                 Elem(4, "code", <<TextNode(5, 0, u)>>),
                                 TextNode(6, 0, t)>>)>>)

Shapes == 1..4

(***************************************************************************)
(* Tree queries                                                            *)
(***************************************************************************)
RECURSIVE textContent(_)
RECURSIVE KidsText(_, _)
KidsText(kids, i) ==
    IF i > Len(kids) THEN <<>>
    ELSE textContent(kids[i]) \o KidsText(kids, i + 1)
\* Node.textContent
textContent(node) ==
    IF node.type = 3 THEN node.text ELSE KidsText(node.kids, 1)

RECURSIVE Descendants(_, _)
RECURSIVE KidsDescendants(_, _, _)
KidsDescendants(kids, i, inCode) ==
    IF i > Len(kids) THEN {}
    ELSE Descendants(kids[i], inCode) \cup KidsDescendants(kids, i + 1, inCode)
\* Every node of the subtree, paired with its parent-side context:
\* inCode says whether the node lies under a code element.
Descendants(node, inCode) ==
    {[node |-> node, inCode |-> inCode]}
    \cup KidsDescendants(node.kids, 1, inCode \/ node.tag = "code")

Nodes(tree) == Descendants(tree, FALSE)

(***************************************************************************)
(* content.js loadMarkdown: sections and cards                             *)
(***************************************************************************)
NL == 10       \* \n
SP == 32       \* space
DASH == 45     \* -
LetterA == 97  \* a, standing for prose

\* The characters \s matches and trim() strips.
WhiteSpace ==
    {9, 10, 11, 12, 13, 32, 160, 5760, 8232, 8233, 8239, 8287, 12288, 65279}
    \cup (8192..8202)

IsSpace(c) == c \in WhiteSpace

RECURSIVE SkipSpace(_, _)
\* Index of the first character at or after i that \s does not match
\* (Len(S) + 1 when there is none): where a greedy \s* from i stops.
SkipSpace(S, i) ==
    IF i <= Len(S) /\ IsSpace(S[i]) THEN SkipSpace(S, i + 1) ELSE i

\* Index just after the match of /\n\s*---\s*\n/ starting at q, 0 when there
\* is none.  The first \s* must stop at the dashes; the second gives back
\* characters until the one after it is a newline, so the match ends with
\* the last newline of the white space that follows the dashes.
MatchDelim(S, q) ==
    IF S[q] # NL THEN 0
    ELSE LET d == SkipSpace(S, q + 1)
         IN  IF ~(d + 2 <= Len(S) /\ S[d] = DASH /\ S[d + 1] = DASH
                    /\ S[d + 2] = DASH)
             THEN 0
             ELSE LET w == SkipSpace(S, d + 3)
                      nls == {k \in (d + 3)..(w - 1) : S[k] = NL}
                  IN  IF nls = {} THEN 0
                      ELSE (CHOOSE k \in nls : \A j \in nls : j <= k) + 1

RECURSIVE SplitMdFrom(_, _, _)
\* md.split(/\n\s*---\s*\n/) from the state (p, q) of the standard
\* algorithm; each piece is given as the range of md it covers.
SplitMdFrom(S, p, q) ==
    IF q > Len(S) THEN <<[from |-> p, to |-> Len(S)]>>
    ELSE LET e == MatchDelim(S, q)
         IN  IF e = 0 THEN SplitMdFrom(S, p, q + 1)
             ELSE <<[from |-> p, to |-> q - 1]>> \o SplitMdFrom(S, e, e)

SplitMd(S) == SplitMdFrom(S, 1, 1)

\* The text of a range of S.
Piece(S, r) == SubSeq(S, r.from, r.to)

RECURSIVE TrimStart(_)
TrimStart(S) == IF S # <<>> /\ IsSpace(Head(S)) THEN TrimStart(Tail(S)) ELSE S
RECURSIVE TrimEnd(_)
TrimEnd(S) ==
    IF S # <<>> /\ IsSpace(S[Len(S)]) THEN TrimEnd(SubSeq(S, 1, Len(S) - 1))
    ELSE S
\* String.prototype.trim
Trim(S) == TrimEnd(TrimStart(S))

RECURSIVE CardsFrom(_, _, _)
\* mdSections.map(...).join(''): an empty string for a blank section, a
\* content-card holding marked.parse(sectionMd) for any other; a card is
\* given by the section it was made from.
CardsFrom(S, sections, i) ==
    IF i > Len(sections) THEN <<>>
    ELSE (IF Trim(Piece(S, sections[i])) = <<>> THEN <<>>
          ELSE <<[from |-> sections[i].from, to |-> sections[i].to,
                  sectionMd |-> Piece(S, sections[i])]>>)
         \o CardsFrom(S, sections, i + 1)

\* Tokens enumerated chapter texts are made of.
Tokens == {<<NL>>, <<SP>>, <<DASH, DASH, DASH>>, <<LetterA>>, <<DASH>>}

ChapterTexts(n) == {Concat(ts) : ts \in UNION {[1..k -> Tokens] : k \in 0..n}}

(***************************************************************************)
(* content.js styleMixedLanguageLines and setRtlDirection                  *)
(***************************************************************************)
BengaliLo == 2437   \* অ
BengaliHi == 2510   \* ৎ

\* The character class [অ-ৎ].
IsBengali(c) == c >= BengaliLo /\ c <= BengaliHi

\* bengaliRegex.test(text)
bengaliRegexTestMut(text) == TRUE
bengaliRegexTest(text) == \E i \in 1..Len(text) : IsBengali(text[i])

\* The character class [a-zA-Zа-яА-Яঅ-ৎ].
IsNonArabic(c) ==
    \/ c \in 97..122
    \/ c \in 65..90
    \/ c \in 1072..1103
    \/ c \in 1040..1071
    \/ IsBengali(c)

\* nonArabicRegex.test(text)
nonArabicRegexTestMut(text) == FALSE
nonArabicRegexTest(text) == \E i \in 1..Len(text) : IsNonArabic(text[i])

\* arabicRegex.test(text)
arabicRegexTest(text) == \E i \in 1..Len(text) : IsArabic(text[i])

\* text.includes('-')
IncludesHyphenMut(text) == FALSE
IncludesHyphen(text) == \E i \in 1..Len(text) : text[i] = DASH

\* node.classList.contains('arabic-letter-card') on an element.
IsLetterCard(node) == node.type = 1 /\ node.cls = "arabic-letter-card"

\* el.querySelector('.arabic-letter-card'): a descendant of el is a card.
hasArabicCard(el) ==
    \E d \in KidsDescendants(el.kids, 1, FALSE) : IsLetterCard(d.node)

\* el.lastElementChild?.classList.contains('arabic-letter-card')
LastElementChildIsCard(el) ==
    LET es == {k \in 1..Len(el.kids) : el.kids[k].type = 1}
    IN  /\ es # {}
        /\ IsLetterCard(el.kids[CHOOSE k \in es : \A j \in es : j <= k])

\* The test of the while loop: a card, or a text node that trims to ''.
IsTrailing(last) ==
    IsLetterCard(last) \/ (last.type = 3 /\ Trim(last.text) = <<>>)

\* rightAlignWrapper.prepend(last)
PrependMut(kids, last) == Append(kids, last)
Prepend(kids, last) == <<last>> \o kids

RECURSIVE PeelLoop(_, _)
\* The while loop from the state (children of el, children of the wrapper):
\* the two child lists it ends with.
PeelLoop(elKids, wrapperKids) ==
    IF elKids = <<>> THEN [el |-> elKids, wrapper |-> wrapperKids]
    ELSE LET last == elKids[Len(elKids)]
         IN  IF IsTrailing(last)
             THEN PeelLoop(SubSeq(elKids, 1, Len(elKids) - 1),
                           Prepend(wrapperKids, last))
             ELSE [el |-> elKids, wrapper |-> wrapperKids]

\* A span created by the pass, with its className and dir.
Span(cls, kids, dir) ==
    [Elem(0, "span", kids) EXCEPT !.cls = cls, !.dir = dir]

\* The forEach callback of styleMixedLanguageLines on el (a block parsed
\* from rendered markdown carries no class of its own).
StyleBlock(el) ==
    IF hasArabicCard(el) /\ bengaliRegexTest(textContent(el))
          /\ LastElementChildIsCard(el)
    THEN LET r == PeelLoop(el.kids, <<>>)
         IN  IF r.wrapper # <<>>
             THEN [el EXCEPT
                     !.kids = <<Span("bengali-text", r.el, ""),
                                Span("arabic-group", r.wrapper, "rtl")>>,
                     !.cls = "mixed-language-line"]
             ELSE el
    ELSE el

RECURSIVE styleMixedLanguageLines(_)
\* querySelectorAll('p, li').forEach(...): the elements are visited in
\* document order, each before its descendants.
styleMixedLanguageLines(node) ==
    IF node.type # 1 THEN node
    ELSE LET el == IF node.tag \in {"p", "li"} THEN StyleBlock(node) ELSE node
         IN  [el EXCEPT !.kids = [k \in 1..Len(el.kids) |->
                                      styleMixedLanguageLines(el.kids[k])]]

\* The forEach callback of setRtlDirection on el.
RtlBlock(el) ==
    LET text == textContent(el)
    IN  IF arabicRegexTest(text) /\ ~nonArabicRegexTest(text)
        THEN [el EXCEPT !.direction = "rtl",
                        !.textAlign = IF IncludesHyphen(text) THEN "right"
                                      ELSE "center"]
        ELSE el

RECURSIVE setRtlDirection(_)
\* querySelectorAll('p, li, blockquote').forEach(...)
setRtlDirection(node) ==
    IF node.type # 1 THEN node
    ELSE LET el == IF node.tag \in {"p", "li", "blockquote"}
                   THEN RtlBlock(node) ELSE node
         IN  [el EXCEPT !.kids = [k \in 1..Len(el.kids) |->
                                      setRtlDirection(el.kids[k])]]

\* Code units of the texts of enumerated blocks: ب, ক, য় (a Bengali letter
\* after ৎ), x, ж, space and hyphen.
BlockAlphabet == {1576, 2453, 2527, 120, 1078, SP, DASH}

BlockTexts(n) == UNION {[1..k -> BlockAlphabet] : k \in 0..n}

\* The texts of the second text node of a block tree.
ShortTexts == {<<1576>>, <<2453>>, <<SP>>}

\* The text node the parser makes of a text: none for the empty text.
TextKids(id, t) == IF t = <<>> THEN <<>> ELSE <<TextNode(id, 0, t)>>

\* Parsed containers with blocks: t is the enumerated text, u the short one.
BlockTree(shape, t, u) ==
    CASE shape = 1 ->
           Elem(1, "div", <<Elem(2, "p", TextKids(3, t))>>)
      [] shape = 2 ->
           Elem(1, "div", <<Elem(2, "p",
               TextKids(3, t) \o <<Elem(4, "em", <<TextNode(5, 0, u)>>)>>)>>)
      [] shape = 3 ->
           Elem(1, "div", <<Elem(2, "li",
               <<Elem(4, "em", <<TextNode(5, 0, u)>>)>> \o TextKids(3, t))>>)
      [] shape = 4 ->
           Elem(1, "div", <<Elem(2, "p",
               <<TextNode(5, 0, u), Elem(4, "code", TextKids(3, t))>>)>>)
      [] shape = 5 ->
           Elem(1, "div", <<Elem(2, "blockquote",
               <<Elem(4, "p", TextKids(3, t))>>)>>)
      [] shape = 6 ->
           Elem(1, "div", <<Elem(2, "ul", <<Elem(4, "li",
               <<Elem(6, "p", TextKids(3, t))>>)>>)>>)
      [] shape = 7 ->
           Elem(1, "div", <<Elem(2, "ul", <<Elem(4, "li",
               <<Elem(6, "p", <<TextNode(5, 0, u)>>)>> \o TextKids(3, t))>>)>>)
      [] shape = 8 ->
           Elem(1, "div", <<Elem(2, "ul",
               <<Elem(4, "li", TextKids(3, t)),
                 Elem(6, "li", <<TextNode(5, 0, u)>>)>>)>>)

BlockShapes == 1..8

(***************************************************************************)
(* The chapter files served to the page                                    *)
(***************************************************************************)
HASH == 35     \* #

\* chapters/<file>: the text a successful fetch of the file delivers.
\* a.md has a card with both headings (the secondary one reads "t - ب - ت ")
\* and a plain card; b.md a card with a secondary heading only and a card
\* with both; any other name one plain card.  The headings hold no markup
\* character (< or &).
ChapterMd(file) ==
    CASE file = "a.md" ->
           <<HASH, HASH, SP, 116, SP, DASH, SP, 1576, SP, DASH, SP, 1578, SP,
             NL, HASH, HASH, HASH, SP, 115, NL,
             DASH, DASH, DASH, NL, LetterA>>
      [] file = "b.md" ->
           <<HASH, HASH, SP, 117, NL, DASH, DASH, DASH, NL,
             HASH, HASH, SP, 118, NL, HASH, HASH, HASH, SP, 119>>
      [] OTHER -> <<LetterA>>

RECURSIVE LinesOf(_)
\* The lines of a text.
LinesOf(S) ==
    LET nls == {k \in 1..Len(S) : S[k] = NL}
    IN  IF nls = {} THEN <<S>>
        ELSE LET k == CHOOSE x \in nls : \A y \in nls : x <= y
             IN  <<SubSeq(S, 1, k - 1)>> \o LinesOf(SubSeq(S, k + 1, Len(S)))

\* The opening of an ATX heading of the given level: level # and a space.
HeadingPrefix(level) == [i \in 1..(level + 1) |-> IF i <= level THEN HASH ELSE SP]

IsHeading(line, level) ==
    /\ Len(line) > level + 1
    /\ SubSeq(line, 1, level + 1) = HeadingPrefix(level)

\* marked.parse(sectionMd) as far as main.js looks at it: the texts of the
\* h<level> elements of the card, in order.
HeadingTexts(sectionMd, level) ==
    LET lines == LinesOf(sectionMd)
        IsH(line) == IsHeading(line, level)
        Text(line) == SubSeq(line, level + 2, Len(line))
    IN  SeqMap(Text, SelectSeq(lines, IsH))

(***************************************************************************)
(* DOM of the page                                                         *)
(***************************************************************************)
\* A child of #markdown-content.  kind: "initial" (what index.html holds),
\* "card" (div.content-card), "error" (the em of loadMarkdown's catch),
\* "manifestError" (the em of the manifest chain's catch).  For a card:
\* render is the loadMarkdown call that created it, idx its position in that
\* render, h2 the text of its first h2 (<<>> when it has none) as a
\* one-element sequence, h3 whether it has an h3, h3id the id given to the
\* h3 (<<>> when none), pulse the pulse-once class.
ContentChild(kind, file, render, idx, h2, h3) ==
    [kind |-> kind, file |-> file, render |-> render, idx |-> idx,
     h2 |-> h2, h3 |-> h3, h3id |-> <<>>, pulse |-> FALSE]

InitialContent == <<ContentChild("initial", "", 0, 0, <<>>, FALSE)>>

\* `<em>Failed to load file: ${filename}.</em>`
LoadErrorMessage(filename) == <<ContentChild("error", filename, 0, 0, <<>>, FALSE)>>

\* "<em>Could not load chapter list. ...</em>"
ManifestErrorMessage == <<ContentChild("manifestError", "", 0, 0, <<>>, FALSE)>>

\* The div.content-card elements parsed from allCardsHtml.
RenderedCards(filename, text, render) ==
    LET cs == CardsFrom(text, SplitMd(text), 1)
    IN  [k \in 1..Len(cs) |->
            LET h2s == HeadingTexts(cs[k].sectionMd, 2)
                h3s == HeadingTexts(cs[k].sectionMd, 3)
            IN  ContentChild("card", filename, render, k - 1,
                             IF h2s = <<>> THEN <<>> ELSE <<Head(h2s)>>,
                             h3s # <<>>)]

\* A child of #chapter-list.  kind: "chapter" (an li built from a manifest
\* entry, with the click listener) or "placeholder" (<li>No chapters
\* found.</li>).  active, expanded, hasSubChapters are its classes;
\* subLists its ul.sub-chapter-list children.
ChapterLi(file) ==
    [kind |-> "chapter", file |-> file, active |-> FALSE, expanded |-> FALSE,
     hasSubChapters |-> FALSE, subLists |-> <<>>]

NoChaptersLi ==
    [kind |-> "placeholder", file |-> "", active |-> FALSE, expanded |-> FALSE,
     hasSubChapters |-> FALSE, subLists |-> <<>>]

\* The entries of li.querySelector('.sub-chapter-list').
SubItems(li) == IF li.subLists = <<>> THEN <<>> ELSE li.subLists[1].items

\* A sub-chapter entry: its textContent, the content of its span.nav-arabic
\* (as a one-element sequence, <<>> when it has no such span) and the id of
\* the h3 it scrolls to.
SubLi(text, navArabic, headingId) ==
    [text |-> text, navArabic |-> navArabic, headingId |-> headingId]

(***************************************************************************)
(* ui.js setActiveChapter                                                  *)
(***************************************************************************)
\* document.querySelector('#chapter-list > li.active'): index of the first
\* active item, 0 when there is none.
CurrentActive(list) ==
    LET act == {k \in 1..Len(list) : list[k].active}
    IN  IF act = {} THEN 0 ELSE CHOOSE k \in act : \A j \in act : k <= j

setActiveChapter(list, i) ==
    LET cur == CurrentActive(list)
        cleared ==
            IF cur # 0 /\ cur # i
            THEN [list EXCEPT ![cur] =
                     [@ EXCEPT !.active = FALSE, !.expanded = FALSE,
                               !.hasSubChapters = FALSE,
                               !.subLists = IF @ = <<>> THEN <<>> ELSE Tail(@)]]
            ELSE list
    IN  [cleared EXCEPT ![i].active = TRUE]

(***************************************************************************)
(* main.js buildSubChapterNav                                              *)
(***************************************************************************)
\* sub-heading-${filename}-${index}
HeadingId(filename, index) == <<filename, index>>

IsContentCard(c) == c.kind = "card"

\* The cards that yield an entry: those with an h2 and an h3.
IsSubChapter(c) == c.kind = "card" /\ c.h2 # <<>> /\ c.h3

\* index of the k-th child among the .content-card elements (0-based).
CardIndex(container, k) ==
    Cardinality({j \in 1..(k - 1) : IsContentCard(container[j])})

\* ' - '
TitleSeparator == <<SP, DASH, SP>>

\* main.js:52-62 the content given to subLi for the text of the h2: with a
\* separator in the trimmed title, the part before the first one, the
\* separator and a span holding the rest; the trimmed title otherwise.
SubLiContentMut(h2Text) ==
    [text |-> Head(SplitOn(Trim(h2Text), TitleSeparator)), navArabic |-> <<>>]
SubLiContent(h2Text) ==
    LET fullTitle == Trim(h2Text)
        parts == SplitOn(fullTitle, TitleSeparator)
    IN  IF Len(parts) > 1
        THEN LET bengaliPart == Head(parts)
                 arabicPart == Join(Tail(parts), TitleSeparator)
             IN  [text |-> bengaliPart \o TitleSeparator \o arabicPart,
                  navArabic |-> <<arabicPart>>]
        ELSE [text |-> fullTitle, navArabic |-> <<>>]

\* The container after the forEach: h3.id set and the h2 removed on every
\* card with both headings.
NavContainer(container, filename) ==
    [k \in 1..Len(container) |->
        IF IsSubChapter(container[k])
        THEN [container[k] EXCEPT
                 !.h3id = HeadingId(filename, CardIndex(container, k)),
                 !.h2 = <<>>]
        ELSE container[k]]

\* The entries appended to the new sub-chapter list, in card order.
NavEntries(container, filename) ==
    LET idxs == {k \in 1..Len(container) : IsSubChapter(container[k])}
        Nth(n) == CHOOSE k \in idxs : Cardinality({j \in idxs : j < k}) = n - 1
    IN  [n \in 1..Cardinality(idxs) |->
            LET c == SubLiContent(container[Nth(n)].h2[1])
            IN  SubLi(c.text, c.navArabic,
                      HeadingId(filename, CardIndex(container, Nth(n))))]

\* The chapter item after buildSubChapterNav: its first sub-chapter list
\* removed, and a new collapsed one appended when a card has both headings.
NavLi(li, container, filename) ==
    LET kept == IF li.subLists = <<>> THEN <<>> ELSE Tail(li.subLists)
        entries == NavEntries(container, filename)
    IN  IF entries # <<>>
        THEN [li EXCEPT !.hasSubChapters = TRUE,
                        !.subLists = Append(kept, [collapsed |-> TRUE,
                                                   items |-> entries])]
        ELSE [li EXCEPT !.subLists = kept]

(***************************************************************************)
(* main.js: the manifest chain                                             *)
(***************************************************************************)
\* JavaScript values a manifest can hold under `chapters` or as an element:
\* t is the type, elems the elements of an array, file the `file` of a
\* chapter record, n the value of a number or the length of a string.
JsValue(t, elems, file, n) == [t |-> t, elems |-> elems, file |-> file, n |-> n]
JsUndefined == JsValue("undefined", <<>>, "", 0)
JsNull == JsValue("null", <<>>, "", 0)
JsNumber(n) == JsValue("number", <<>>, "", n)
JsString(n) == JsValue("string", <<>>, "", n)
JsArray(elems) == JsValue("array", elems, "", 0)
JsChapter(file) == JsValue("record", <<>>, file, 0)

\* What res.json() can resolve with: null, or an object with (or without,
\* chapters undefined) a chapters property.
DataNull == [t |-> "null", chapters |-> JsUndefined]
\* res.json() has not resolved.
DataNone == [t |-> "none", chapters |-> JsUndefined]
DataObject(chapters) == [t |-> "object", chapters |-> chapters]

Manifests ==
    { DataObject(JsArray(<<JsChapter("a.md"), JsChapter("b.md")>>)),
      DataObject(JsArray(<<JsChapter("b.md")>>)),
      DataObject(JsArray(<<>>)),
      DataObject(JsUndefined),
      DataObject(JsNull),
      DataObject(JsString(0)),
      DataNull,
      DataObject(JsString(3)),
      DataObject(JsNumber(5)),
      DataObject(JsArray(<<JsNumber(1), JsNumber(2)>>)),
      DataObject(JsArray(<<JsNull>>)),
      DataObject(JsArray(<<JsChapter("a.md"), JsNull>>)) }

\* ToBoolean
Truthy(v) ==
    CASE v.t \in {"undefined", "null"} -> FALSE
      [] v.t \in {"number", "string"} -> v.n # 0
      [] OTHER -> TRUE

\* data.chapters || []
ChaptersOrEmptyMut(v) == v
ChaptersOrEmpty(v) == IF Truthy(v) THEN v ELSE JsArray(<<>>)

\* chapters.length === 0
LengthIsZero(v) ==
    CASE v.t = "array" -> Len(v.elems) = 0
      [] v.t = "string" -> v.n = 0
      [] OTHER -> FALSE

\* String(chapter.file) as `chapters/${chapter.file}` spells it.
FileOf(chapter) == IF chapter.t = "record" THEN chapter.file ELSE "undefined"

RECURSIVE ForEachChapter(_, _)
\* chapters.forEach(...) from element i on: the items appended, and whether
\* the callback threw (reading title of null or undefined) and ended it.
ForEachChapter(elems, i) ==
    IF i > Len(elems) THEN [items |-> <<>>, threw |-> FALSE]
    ELSE IF elems[i].t \in {"null", "undefined"}
         THEN [items |-> <<>>, threw |-> TRUE]
    ELSE LET rest == ForEachChapter(elems, i + 1)
         IN  [items |-> <<ChapterLi(FileOf(elems[i]))>> \o rest.items,
              threw |-> rest.threw]

\* The then(data) handler up to the first click: the children of
\* #chapter-list it leaves, whether it threw, and whether it went on to
\* click the first item.
ManifestThen(list, d) ==
    IF d.t = "null" THEN [list |-> list, threw |-> TRUE, click |-> FALSE]
    ELSE LET chapters == ChaptersOrEmpty(d.chapters)
         IN  IF LengthIsZero(chapters)
             THEN [list |-> <<NoChaptersLi>>, threw |-> FALSE, click |-> FALSE]
             ELSE IF chapters.t # "array"
             THEN [list |-> list, threw |-> TRUE, click |-> FALSE]
             ELSE LET r == ForEachChapter(chapters.elems, 1)
                  IN  [list |-> list \o r.items, threw |-> r.threw,
                       click |-> ~r.threw /\ list \o r.items # <<>>]

\* The catch of the manifest chain, entered with the reason err: what it
\* logs and puts in the content area.
ManifestCatchMut(err, content) ==
    [content |-> content, log |-> <<>>]
ManifestCatch(err, content) ==
    [content |-> ManifestErrorMessage,
     log |-> <<[msg |-> "Failed to load chapters.json:", err |-> err,
                file |-> "chapters.json"]>>]

(***************************************************************************)
(* main.js: the click handler of a chapter item                            *)
(***************************************************************************)
\* The else branch is taken: the item does not carry the class active.
IsNewChapterMut(li) == TRUE
IsNewChapter(li) == ~li.active

\* The handler for a click that is not inside a sub-chapter list: the list
\* it leaves and whether it called loadMarkdown.
ChapterClick(list, i) ==
    IF ~IsNewChapter(list[i])
    THEN [list |->
             IF list[i].subLists # <<>>
             THEN [list EXCEPT ![i].expanded = ~@,
                               ![i].subLists[1].collapsed = ~@]
             ELSE list,
          load |-> FALSE]
    ELSE [list |-> setActiveChapter(list, i), load |-> TRUE]

\* loadMarkdown(filename) up to the fetch call: the new pending load.
NewLoad(filename, i) ==
    [file |-> filename, li |-> i, phase |-> "fetch", promise |-> "pending",
     outcome |-> "none"]

(***************************************************************************)
(* content.js loadMarkdown: the handlers of the promise chain              *)
(***************************************************************************)
\* contentDiv.innerHTML = '' followed by the appendChild loop.
ReplaceChildrenMut(old, new) == old \o new
ReplaceChildren(old, new) == new

\* The then(md) handler: the new content, and the state of the promise
\* loadMarkdown returned.
LoadThenMut(filename, render, content) ==
    [content |-> IF content # <<>> /\ content[1].render > render
                 THEN content
                 ELSE RenderedCards(filename, ChapterMd(filename), render),
     log |-> <<>>, promise |-> "resolved", outcome |-> "ok"]
LoadThen(filename, render, content) ==
    [content |-> ReplaceChildren(content,
                     RenderedCards(filename, ChapterMd(filename), render)),
     log |-> <<>>, promise |-> "resolved", outcome |-> "ok"]

\* The catch handler: logs, shows the message and returns contentDiv;
\* err is the reason it was entered with.
LoadCatchMut(filename, err, content) ==
    [content |-> content,
     log |-> <<[msg |-> "Failed to load markdown:", err |-> err,
                file |-> filename]>>,
     promise |-> "rejected", outcome |-> "error"]
LoadCatch(filename, err, content) ==
    [content |-> LoadErrorMessage(filename),
     log |-> <<[msg |-> "Failed to load markdown:", err |-> err,
                file |-> filename]>>,
     promise |-> "resolved", outcome |-> "error"]

(***************************************************************************)
(* ui.js: the letter table and the numeral conversion                      *)
(***************************************************************************)
\* Keys are the code units of the letters; names are code-unit sequences,
\* the English ones strings.
letterData ==
    1575 :> [makhraj |-> 16,
             name |-> [bengali |-> <<2438, 2482, 2495, 2475>>,
                       english |-> "Alif",
                       arabic |-> <<1571, 1604, 1601>>]]
    @@ 1576 :> [makhraj |-> 15,
             name |-> [bengali |-> <<2476, 2494>>,
                       english |-> "Ba",
                       arabic |-> <<1576, 1575, 1569>>]]
    @@ 1578 :> [makhraj |-> 11,
             name |-> [bengali |-> <<2468, 2494>>,
                       english |-> "Ta",
                       arabic |-> <<1578, 1575, 1569>>]]
    @@ 1579 :> [makhraj |-> 13,
             name |-> [bengali |-> <<2459, 2494>>,
                       english |-> "Tha",
                       arabic |-> <<1579, 1575, 1569>>]]
    @@ 1580 :> [makhraj |-> 6,
             name |-> [bengali |-> <<2460, 2495, 2478>>,
                       english |-> "Jim",
                       arabic |-> <<1580, 1610, 1605>>]]
    @@ 1581 :> [makhraj |-> 2,
             name |-> [bengali |-> <<2489, 2494>>,
                       english |-> "Ha",
                       arabic |-> <<1581, 1575, 1569>>]]
    @@ 1582 :> [makhraj |-> 3,
             name |-> [bengali |-> <<2454>>,
                       english |-> "Kha",
                       arabic |-> <<1582, 1575, 1569>>]]
    @@ 1583 :> [makhraj |-> 11,
             name |-> [bengali |-> <<2470, 2494, 2482>>,
                       english |-> "Dal",
                       arabic |-> <<1583, 1575, 1604>>]]
    @@ 1584 :> [makhraj |-> 13,
             name |-> [bengali |-> <<2479, 2494, 2482>>,
                       english |-> "Dhal",
                       arabic |-> <<1584, 1575, 1604>>]]
    @@ 1585 :> [makhraj |-> 10,
             name |-> [bengali |-> <<2480>>,
                       english |-> "Ra",
                       arabic |-> <<1585, 1575, 1569>>]]
    @@ 1586 :> [makhraj |-> 12,
             name |-> [bengali |-> <<2479, 2494>>,
                       english |-> "Zay",
                       arabic |-> <<1586, 1575, 1610>>]]
    @@ 1587 :> [makhraj |-> 12,
             name |-> [bengali |-> <<2488, 2495, 2472>>,
                       english |-> "Sin",
                       arabic |-> <<1587, 1610, 1606>>]]
    @@ 1588 :> [makhraj |-> 6,
             name |-> [bengali |-> <<2486, 2495, 2472>>,
                       english |-> "Shin",
                       arabic |-> <<1588, 1610, 1606>>]]
    @@ 1589 :> [makhraj |-> 12,
             name |-> [bengali |-> <<2488, 2470>>,
                       english |-> "Sad",
                       arabic |-> <<1589, 1575, 1583>>]]
    @@ 1590 :> [makhraj |-> 7,
             name |-> [bengali |-> <<2470, 2470>>,
                       english |-> "Dad",
                       arabic |-> <<1590, 1575, 1583>>]]
    @@ 1591 :> [makhraj |-> 11,
             name |-> [bengali |-> <<2468>>,
                       english |-> "Ta'",
                       arabic |-> <<1591, 1575, 1569>>]]
    @@ 1592 :> [makhraj |-> 13,
             name |-> [bengali |-> <<2479>>,
                       english |-> "Dha'",
                       arabic |-> <<1592, 1575, 1569>>]]
    @@ 1593 :> [makhraj |-> 2,
             name |-> [bengali |-> <<2438, 2439, 2472>>,
                       english |-> "Ayn",
                       arabic |-> <<1593, 1610, 1606>>]]
    @@ 1594 :> [makhraj |-> 3,
             name |-> [bengali |-> <<2455, 2439, 2472>>,
                       english |-> "Ghayn",
                       arabic |-> <<1594, 1610, 1606>>]]
    @@ 1601 :> [makhraj |-> 14,
             name |-> [bengali |-> <<2475, 2494>>,
                       english |-> "Fa",
                       arabic |-> <<1601, 1575, 1569>>]]
    @@ 1602 :> [makhraj |-> 4,
             name |-> [bengali |-> <<2453, 2475>>,
                       english |-> "Qaf",
                       arabic |-> <<1602, 1575, 1601>>]]
    @@ 1603 :> [makhraj |-> 5,
             name |-> [bengali |-> <<2453, 2494, 2475>>,
                       english |-> "Kaf",
                       arabic |-> <<1603, 1575, 1601>>]]
    @@ 1604 :> [makhraj |-> 8,
             name |-> [bengali |-> <<2482, 2494, 2478>>,
                       english |-> "Lam",
                       arabic |-> <<1604, 1575, 1605>>]]
    @@ 1605 :> [makhraj |-> 15,
             name |-> [bengali |-> <<2478, 2495, 2478>>,
                       english |-> "Mim",
                       arabic |-> <<1605, 1610, 1605>>]]
    @@ 1606 :> [makhraj |-> 9,
             name |-> [bengali |-> <<2472, 2497, 2472>>,
                       english |-> "Nun",
                       arabic |-> <<1606, 1608, 1606>>]]
    @@ 1608 :> [makhraj |-> 15,
             name |-> [bengali |-> <<2451, 2527, 2494, 2451>>,
                       english |-> "Waw",
                       arabic |-> <<1608, 1575, 1608>>]]
    @@ 1607 :> [makhraj |-> 1,
             name |-> [bengali |-> <<2489, 2494>>,
                       english |-> "Ha",
                       arabic |-> <<1607, 1575, 1569>>]]
    @@ 1569 :> [makhraj |-> 1,
             name |-> [bengali |-> <<2489, 2494, 2478, 2460, 2494>>,
                       english |-> "Hamza",
                       arabic |-> <<1607, 1605, 1586, 1577>>]]
    @@ 1610 :> [makhraj |-> 6,
             name |-> [bengali |-> <<2439, 2527, 2494>>,
                       english |-> "Ya",
                       arabic |-> <<1610, 1575, 1569>>]]

\* The code units of '0' and of the characters used by the templates.
DigitZero == 48
PLUS == 43
EQUALS == 61

\* ui.js:56 the array bengaliNumerals: the code units of the ten digits.
bengaliNumerals == <<2534, 2535, 2536, 2537, 2538, 2539, 2540, 2541, 2542,
                     2543>>

\* String(num) for a non-negative integer: its decimal digits.
RECURSIVE StringOfNumber(_)
StringOfNumber(num) ==
    IF num < 10 THEN <<DigitZero + num>>
    ELSE Append(StringOfNumber(num \div 10), DigitZero + (num % 10))

\* parseInt of a one-character string holding a decimal digit.
parseInt(digit) == digit - DigitZero

\* String(num).split('').map(digit => bengaliNumerals[parseInt(digit)]).join('')
toBengaliNumeralsMut(num) == StringOfNumber(num)
toBengaliNumerals(num) ==
    SeqMap(LAMBDA digit : bengaliNumerals[parseInt(digit) + 1],
           StringOfNumber(num))

\* letter.split(''): the one-character strings of its code units.
SplitChars(letter) == [k \in 1..Len(letter) |-> <<letter[k]>>]

\* letterData[letter]: the record, or nothing (undefined) when the string is
\* not a key of the table.
LetterLookup(letter) ==
    IF Len(letter) = 1 /\ letter[1] \in DOMAIN letterData
    THEN <<letterData[letter[1]]>>
    ELSE <<>>

(***************************************************************************)
(* ui.js openLetterModal: the body it builds                               *)
(***************************************************************************)
\* #letter-modal-body: class list, text set through textContent, and the
\* blocks of the single-letter template (each absent when empty).
ModalBody(cls, text, names, display, examples, positional, makhrajBox) ==
    [cls |-> cls, text |-> text, names |-> names, display |-> display,
     examples |-> examples, positional |-> positional,
     makhrajBox |-> makhrajBox]

\* ui.js:66-67 innerHTML = '' and className = 'letter-modal-body'
EmptyBody ==
    ModalBody({"letter-modal-body"}, <<>>, <<>>, <<>>, <<>>, <<>>, <<>>)

\* ui.js:72 the composition equation of a multi-letter payload.
CombinedTextMut(letter) ==
    Join(SplitChars(letter), <<PLUS>>) \o <<SP, EQUALS, SP>> \o letter
CombinedText(letter) ==
    Join(SplitChars(letter), <<SP, PLUS, SP>>) \o <<SP, EQUALS, SP>> \o letter

\* ui.js:84-92 the letter-names-group block: one item per script.
NamesGroup(name) ==
    <<[cls |-> "arabic-name", text |-> name.arabic],
      [cls |-> "bengali-name", text |-> name.bengali],
      [cls |-> "english-name", text |-> name.english]>>

Alif == 1575
Waw == 1608
Ya == 1610

\* ui.js:75-112 the single-letter view; entry is the constant data, and an
\* index that is undefined is 0 (both are falsy).
SingleLetterBody(letter) ==
    LET entry == LetterLookup(letter)
        makhrajNumber == IF entry = <<>> THEN 0 ELSE entry[1].makhraj
        bengaliMakhraj == IF makhrajNumber # 0
                          THEN toBengaliNumerals(makhrajNumber) ELSE <<>>
        makhrajHtml == IF bengaliMakhraj # <<>>
                       THEN <<[cls |-> "makhraj-box", text |-> bengaliMakhraj]>>
                       ELSE <<>>
        letterNameHtml == IF entry # <<>> THEN NamesGroup(entry[1].name)
                          ELSE <<>>
    IN  ModalBody({"letter-modal-body", "single-letter-view"}, <<>>,
                  letterNameHtml, letter,
                  <<letter \o <<Alif>>, letter \o <<Waw>>, letter \o <<Ya>>>>,
                  letter \o letter \o letter, makhrajHtml)

\* ui.js:64-113 the body openLetterModal leaves.
BodyFor(letter) ==
    IF Len(letter) > 1
    THEN [EmptyBody EXCEPT !.text = CombinedText(letter)]
    ELSE SingleLetterBody(letter)

(***************************************************************************)
(* ui.js: listeners, timers and the open/close handlers of the overlay     *)
(***************************************************************************)
\* EventTarget.addEventListener: a listener already in the list is not
\* added again.
addEventListenerMut(list, fn) == Append(list, fn)
addEventListener(list, fn) ==
    IF \E k \in 1..Len(list) : list[k] = fn THEN list ELSE Append(list, fn)

\* EventTarget.removeEventListener
removeEventListener(list, fn) == SelectSeq(list, LAMBDA g : g # fn)

\* The part of the state the overlay handlers write.
ModalState ==
    [classes |-> overlayClasses, click |-> overlayClick,
     keydown |-> windowKeydown, timers |-> modalTimers, open |-> modalOpen,
     closed |-> FALSE]

\* ui.js:114-118 the end of openLetterModal.
ShowOverlay(st) ==
    [st EXCEPT !.classes = @ \ {"modal-hidden"},
               !.timers = Append(@, "show"),
               !.click = addEventListener(@, "closeLetterModalOnClickOutside"),
               !.keydown = addEventListener(@, "closeLetterModalOnEscape"),
               !.open = TRUE]

\* ui.js:123-130
closeLetterModal(st) ==
    [st EXCEPT !.classes = @ \ {"visible"},
               !.timers = Append(@, "hide"),
               !.click = removeEventListener(@, "closeLetterModalOnClickOutside"),
               !.keydown = removeEventListener(@, "closeLetterModalOnEscape"),
               !.open = FALSE,
               !.closed = TRUE]

\* ui.js:132 the test of the click listener: the event target is the
\* overlay element itself.
IsOutsideClick(target) == target = "overlay"

closeLetterModalOnClickOutside(target, st) ==
    IF IsOutsideClick(target) THEN closeLetterModal(st) ELSE st

\* ui.js:133
IsEscapeMut(key) == TRUE
IsEscape(key) == key = "Escape"

closeLetterModalOnEscape(key, st) ==
    IF IsEscape(key) THEN closeLetterModal(st) ELSE st

\* Dispatch of an event to the listeners registered when it started, in
\* order; a listener removed meanwhile is not called.
RECURSIVE DispatchClickEvent(_, _, _, _)
DispatchClickEvent(fns, k, target, st) ==
    IF k > Len(fns) THEN st
    ELSE DispatchClickEvent(fns, k + 1, target,
             IF \E j \in 1..Len(st.click) : st.click[j] = fns[k]
             THEN closeLetterModalOnClickOutside(target, st) ELSE st)

RECURSIVE DispatchKeyEvent(_, _, _, _)
DispatchKeyEvent(fns, k, key, st) ==
    IF k > Len(fns) THEN st
    ELSE DispatchKeyEvent(fns, k + 1, key,
             IF \E j \in 1..Len(st.keydown) : st.keydown[j] = fns[k]
             THEN closeLetterModalOnEscape(key, st) ELSE st)

\* ui.js:115,126 the callbacks of the two timers.
TimerCallback(kind, classes) ==
    IF kind = "show" THEN classes \cup {"visible"}
    ELSE classes \cup {"modal-hidden"}

\* ui.js:115,126 the delays in milliseconds.
TimerDelay(kind) == IF kind = "show" THEN 10 ELSE 300

\* Timer k may fire now: no timer set before it with a delay that is not
\* longer is still pending (that one is due earlier).
MayFire(timers, k) ==
    \A j \in 1..(k - 1) : TimerDelay(timers[j]) > TimerDelay(timers[k])

\* The explicit close control of the overlay, an element inside the
\* container.
CloseControl == "closeControl"

\* Elements a click on the overlay can have as its target: the overlay
\* itself (the area around the container), the container, the body, and
\* the close control.
ClickTargets == {"overlay", "container", "body", CloseControl}

\* Keys of the keydown events.
Keys == {"Escape", "Enter", "a"}

\* Payloads of the cards: alif (index 16), kaf (index 5), and tatweel and
\* U+0600, which are in the Arabic block but not in the letter table.
Kaf == 1603
Tatweel == 1600
PayloadAlphabet == {Alif, Kaf, Tatweel, ArabicLo}

Payloads == UNION {[1..n -> PayloadAlphabet] : n \in 1..MaxPayload}

\* The page before any card was clicked.
ModalIdle ==
    /\ letterModalBody = EmptyBody
    /\ overlayClasses = {"modal-hidden"}
    /\ overlayClick = <<>>
    /\ windowKeydown = <<>>
    /\ modalTimers = <<>>
    /\ modalOpen = FALSE
    /\ modalEvent = [seq |-> 0, op |-> "none", arg |-> <<>>, closed |-> FALSE]

(***************************************************************************)
(* settings.js: localStorage, the controls and the page                    *)
(***************************************************************************)
\* What localStorage.getItem returns for a key that is not stored.
Null == "(null)"

StorageKeys == {"appTheme", "appBackground", "bengaliFont", "arabicFont",
                "backgroundFx", "cursorFx", "particleDensity"}

\* localStorage.getItem(key) || fallback
OrDefault(v, fallback) == IF v = Null \/ v = "" THEN fallback ELSE v

\* The defaults of applySavedSettings, settings.js:117-123.
DefaultOf(key) ==
    CASE key = "appTheme" -> "light"
      [] key = "appBackground" -> "default"
      [] key = "bengaliFont" -> "'Amiri', serif"
      [] key = "arabicFont" -> "'Noto Naskh Arabic', serif"
      [] key = "backgroundFx" -> "sparkles"
      [] key = "cursorFx" -> "none"
      [] key = "particleDensity" -> "medium"

\* The option values of the controls.
ThemeOptions == {"light", "dark", "sepia"}
BengaliFontOptions == {"'Amiri', serif", "'Other Bengali', serif"}
ArabicFontOptions == {"'Noto Naskh Arabic', serif", "'Other Arabic', serif"}
CursorFxOptions == {"none", "fireflies", "bouncing-balls"}
DensityButtons == {"low", "medium", "high", "very-high"}

\* The options of the background control, in order: value and data-is-dark.
BackgroundOptions ==
    <<[value |-> "default", isDark |-> FALSE],
      [value |-> "image-1.jpg", isDark |-> FALSE],
      [value |-> "image-2.jpg", isDark |-> TRUE]>>

BackgroundValues == {BackgroundOptions[k].value : k \in 1..Len(BackgroundOptions)}

\* fx-controller.js:14-19 the keys of effects; they are the options of the
\* background-effect control.
EffectNames == {"none", "sparkles", "shooting-stars", "constellations"}
FxOptions == EffectNames

\* Assignment to select.value: a string that is no option leaves the
\* control without a selection, and its value reads as ''.
SetSelectValue(options, v) == IF v \in options THEN v ELSE ""

\* A class name: its stem and whether it ends with '-theme'.
ClassName(stem, suffix) == [stem |-> stem, suffix |-> suffix]

\* themeName + '-theme'
ThemeClass(themeName) == ClassName(themeName, "-theme")

\* c.endsWith('-theme')
EndsWithThemeMut(c) == FALSE
EndsWithTheme(c) == c.suffix = "-theme"

\* settings.js:36-45
updateThemeMut(pg, themeName) ==
    [pg EXCEPT !.themeSelect = SetSelectValue(ThemeOptions, themeName)]
updateTheme(pg, themeName) ==
    [pg EXCEPT
       !.bodyClasses = {c \in @ : ~EndsWithTheme(c)} \cup
                       (IF themeName # "" /\ themeName # Null
                           /\ themeName # "light"
                        THEN {ThemeClass(themeName)} ELSE {}),
       !.themeSelect = SetSelectValue(ThemeOptions, themeName)]

\* settings.js:51-79 updateBackground(backgroundSelect); with no selected
\* option the first one is taken.
updateBackground(pg) ==
    LET hits == {k \in 1..Len(BackgroundOptions) :
                     BackgroundOptions[k].value = pg.backgroundSelect}
        selectedOption == IF hits = {} THEN BackgroundOptions[1]
                          ELSE BackgroundOptions[CHOOSE k \in hits : TRUE]
        bgValue == selectedOption.value
        plain == pg.bodyClasses \
                     {ClassName("image-background", ""),
                      ClassName("dark-image-background", "")}
    IN  [pg EXCEPT
           !.backgroundImage = IF bgValue = "default" THEN "" ELSE bgValue,
           !.bodyClasses =
               IF bgValue = "default" THEN plain
               ELSE plain \cup {ClassName("image-background", "")} \cup
                    (IF selectedOption.isDark
                     THEN {ClassName("dark-image-background", "")} ELSE {}),
           !.backgroundSelect = bgValue]

\* The page as the markup gives it, before initSettings.
InitialPage ==
    [bodyClasses |-> {}, backgroundImage |-> "",
     fontBengali |-> "", fontArabic |-> "",
     themeSelect |-> "light", backgroundSelect |-> "default",
     bengaliFontSelect |-> "'Amiri', serif",
     arabicFontSelect |-> "'Noto Naskh Arabic', serif",
     fxSelect |-> "none", cursorFxSelect |-> "none", densityActive |-> {}]

(***************************************************************************)
(* fx/*.js: the effect modules                                             *)
(***************************************************************************)
BackgroundModules == {"sparkles", "shooting-stars", "constellations"}
CursorModules == {"fireflies", "bouncing-balls"}
Modules == BackgroundModules \cup CursorModules

\* The variables of one module: the number of pending frame callbacks and
\* whether animationFrameId names one of them, the same for the interval of
\* shooting-stars.js, isRunning of the cursor effects, and currentDensity.
ModuleInit ==
    [loops |-> 0, frameId |-> FALSE, intervals |-> 0, intervalId |-> FALSE,
     isRunning |-> FALSE, density |-> "medium"]

\* The part of the state the effect code writes.
FxState ==
    [mods |-> fxModules, resize |-> windowResize, theme |-> themeChange,
     mousemove |-> documentMousemove, canvas |-> canvasDisplay,
     overlay |-> overlayCanvasDisplay, current |-> currentFxName]

\* animate(): draws and requests the next frame.
Animate(mod) == [mod EXCEPT !.loops = @ + 1, !.frameId = TRUE]

\* if (animationFrameId) cancelAnimationFrame(animationFrameId): an id
\* whose callback is no longer pending cancels nothing.
CancelFrame(mod) ==
    IF mod.frameId THEN [mod EXCEPT !.loops = @ - 1, !.frameId = FALSE]
    ELSE mod

\* sparkles.js:85-95, shooting-stars.js:148-162, constellations.js:114-124
BackgroundStart(st, m, density) ==
    LET started == Animate([st.mods[m] EXCEPT !.density = density])
    IN  [st EXCEPT
           !.mods[m] = IF m = "shooting-stars"
                       THEN [started EXCEPT !.intervals = @ + 1,
                                            !.intervalId = TRUE]
                       ELSE started,
           !.resize = addEventListener(@, m),
           !.theme = addEventListener(@, m)]

\* sparkles.js:97-105, shooting-stars.js:164-173, constellations.js:126-134
BackgroundStopMut(st, m) == st
BackgroundStop(st, m) ==
    LET cancelled == CancelFrame(st.mods[m])
    IN  [st EXCEPT
           !.mods[m] = IF cancelled.intervalId
                       THEN [cancelled EXCEPT !.intervals = @ - 1,
                                              !.intervalId = FALSE]
                       ELSE cancelled,
           !.resize = removeEventListener(@, m),
           !.theme = removeEventListener(@, m)]

\* fireflies.js:164 and constellations.js:272 if (isRunning) return;
AlreadyRunningMut(mod) == FALSE
AlreadyRunning(mod) == mod.isRunning

\* fireflies.js:163-180, constellations.js:271-288
CursorStart(st, m) ==
    IF AlreadyRunning(st.mods[m]) THEN st
    ELSE [st EXCEPT
            !.mods[m] = Animate([@ EXCEPT !.isRunning = TRUE]),
            !.overlay = "block",
            !.mousemove = addEventListener(@, m),
            !.theme = addEventListener(@, m)]

\* fireflies.js:182-195, constellations.js:290-303
CursorStop(st, m) ==
    IF ~st.mods[m].isRunning THEN st
    ELSE [st EXCEPT
            !.mods[m] = CancelFrame([@ EXCEPT !.isRunning = FALSE]),
            !.overlay = "none",
            !.mousemove = removeEventListener(@, m),
            !.theme = removeEventListener(@, m)]

\* fx-controller.js:27-46
setActiveFx(st, fxName, density) ==
    LET stopped == IF st.current \in BackgroundModules
                   THEN BackgroundStop(st, st.current) ELSE st
        started == IF fxName = "none"
                   THEN [stopped EXCEPT !.canvas = "none"]
                   ELSE IF fxName \in BackgroundModules
                        THEN BackgroundStart(
                                 [stopped EXCEPT !.canvas = "block"],
                                 fxName, density)
                        ELSE stopped
    IN  [started EXCEPT !.current = fxName]

\* settings.js:221-230 the body of the cursor-effect handler after the
\* value is stored, and settings.js:151-155 at startup.
StartCursorFx(st, name) ==
    IF name = "fireflies" THEN CursorStart(st, "fireflies")
    ELSE IF name = "bouncing-balls" THEN CursorStart(st, "bouncing-balls")
    ELSE st

SelectCursorFx(st, name) ==
    StartCursorFx(CursorStop(CursorStop(st, "fireflies"), "bouncing-balls"),
                  name)

\* settings.js:141-144 the stored effect name, or the default when it is no
\* option of the control.
ValidFxMut(savedFx) == savedFx
ValidFx(savedFx) == IF savedFx \in FxOptions THEN savedFx ELSE "sparkles"

\* settings.js:115-165 applySavedSettings: the page and the effect state it
\* leaves, from the stored values.
SavedValue(store, key) == OrDefault(store[key], DefaultOf(key))

applySavedSettings(store, pg, st) ==
    LET savedFx == ValidFx(SavedValue(store, "backgroundFx"))
        savedCursorFx == SavedValue(store, "cursorFx")
        savedFxDensity == SavedValue(store, "particleDensity")
        themed == updateTheme(pg, SavedValue(store, "appTheme"))
        backed == updateBackground(
                      [themed EXCEPT !.backgroundSelect =
                           SetSelectValue(BackgroundValues,
                                          SavedValue(store, "appBackground"))])
    IN  [page |->
            [backed EXCEPT
               !.fontBengali = SavedValue(store, "bengaliFont"),
               !.bengaliFontSelect =
                   SetSelectValue(BengaliFontOptions,
                                  SavedValue(store, "bengaliFont")),
               !.fontArabic = SavedValue(store, "arabicFont"),
               !.arabicFontSelect =
                   SetSelectValue(ArabicFontOptions,
                                  SavedValue(store, "arabicFont")),
               !.fxSelect = SetSelectValue(FxOptions, savedFx),
               !.cursorFxSelect =
                   SetSelectValue(CursorFxOptions, savedCursorFx),
               !.densityActive =
                   {b \in DensityButtons : b = savedFxDensity}],
         fx |-> StartCursorFx(setActiveFx(st, savedFx, savedFxDensity),
                              savedCursorFx)]

\* The page before DOMContentLoaded, and the effect code as loaded.
FxIdle ==
    /\ storage = [key \in StorageKeys |-> Null]
    /\ page = InitialPage
    /\ fxModules = [m \in Modules |-> ModuleInit]
    /\ windowResize = <<>>
    /\ themeChange = <<>>
    /\ documentMousemove = <<>>
    /\ colorTimers = <<>>
    /\ canvasDisplay = ""
    /\ overlayCanvasDisplay = ""
    /\ currentFxName = "none"
    /\ settingsPc = "idle"
    /\ fxEvent = [seq |-> 0, op |-> "none", arg |-> ""]

(***************************************************************************)
(* Specification of the segmentation pass on enumerated trees              *)
(***************************************************************************)
WrapIdle ==
    /\ tempContainer = <<>>
    /\ parsedTree = <<>>
    /\ wrapPc = "idle"

SplitIdle ==
    /\ md = <<>>
    /\ mdSections = <<>>
    /\ allCardsHtml = <<>>
    /\ splitPc = "idle"

\* The page before DOMContentLoaded.
AppIdle ==
    /\ manifestPc = "idle"
    /\ data = DataNone
    /\ chapterList = <<>>
    /\ contentDiv = <<>>
    /\ loads = <<>>
    /\ fetches = <<>>
    /\ consoleErrors = <<>>
    /\ clicks = 0
    /\ lastClick = [seq |-> 0, li |-> 0, where |-> "none"]

InitWrap ==
    /\ SplitIdle
    /\ AppIdle
    /\ ModalIdle
    /\ FxIdle
    /\ \E shape \in Shapes, t \in Texts(MaxLen), u \in Texts(ShortLen) :
           tempContainer = Tree(shape, t, u)
    /\ parsedTree = tempContainer
    /\ wrapPc = "parsed"

\* content.js:176 wrapArabicLetters(tempContainer)
WrapStep ==
    /\ wrapPc = "parsed"
    /\ tempContainer' = wrapArabicLetters(tempContainer)
    /\ wrapPc' = "wrapped"
    /\ UNCHANGED <<parsedTree, splitVars, appVars, modalVars, fxVars>>

NextWrap == WrapStep

SpecWrap == InitWrap /\ [][NextWrap]_vars

(***************************************************************************)
(* Specification of the three passes of loadMarkdown on enumerated blocks  *)
(***************************************************************************)
InitLayout ==
    /\ SplitIdle
    /\ AppIdle
    /\ ModalIdle
    /\ FxIdle
    /\ \E shape \in BlockShapes, t \in BlockTexts(MaxBlockLen), u \in ShortTexts :
           tempContainer = BlockTree(shape, t, u)
    /\ parsedTree = tempContainer
    /\ wrapPc = "parsed"

\* content.js:177 styleMixedLanguageLines(tempContainer)
StyleStep ==
    /\ wrapPc = "wrapped"
    /\ tempContainer' = styleMixedLanguageLines(tempContainer)
    /\ wrapPc' = "styled"
    /\ UNCHANGED <<parsedTree, splitVars, appVars, modalVars, fxVars>>

\* content.js:178 setRtlDirection(tempContainer)
RtlStep ==
    /\ wrapPc = "styled"
    /\ tempContainer' = setRtlDirection(tempContainer)
    /\ wrapPc' = "directed"
    /\ UNCHANGED <<parsedTree, splitVars, appVars, modalVars, fxVars>>

NextLayout ==
    \/ WrapStep
    \/ StyleStep
    \/ RtlStep

SpecLayout == InitLayout /\ [][NextLayout]_vars

(***************************************************************************)
(* Specification of the section split on enumerated chapter texts          *)
(***************************************************************************)
InitSplit ==
    /\ WrapIdle
    /\ AppIdle
    /\ ModalIdle
    /\ FxIdle
    /\ md \in ChapterTexts(MaxTokens)
    /\ mdSections = <<>>
    /\ allCardsHtml = <<>>
    /\ splitPc = "text"

\* content.js:164-169 the split and the map/join of the then-handler
SplitStep ==
    /\ splitPc = "text"
    /\ mdSections' = SplitMd(md)
    /\ allCardsHtml' = CardsFrom(md, SplitMd(md), 1)
    /\ splitPc' = "rendered"
    /\ UNCHANGED <<md, wrapVars, appVars, modalVars, fxVars>>

NextSplit == SplitStep

SpecSplit == InitSplit /\ [][NextSplit]_vars

(***************************************************************************)
(* Specification of the page: manifest, clicks and chapter loads           *)
(***************************************************************************)
\* main.js:100-102 the DOMContentLoaded handler has run: the manifest fetch
\* is under way.
Init ==
    /\ WrapIdle
    /\ SplitIdle
    /\ ModalIdle
    /\ FxIdle
    /\ manifestPc = "fetching"
    /\ data = DataNone
    /\ chapterList = <<>>
    /\ contentDiv = InitialContent
    /\ loads = <<>>
    /\ fetches = <<"chapters.json">>
    /\ consoleErrors = <<>>
    /\ clicks = 0
    /\ lastClick = [seq |-> 0, li |-> 0, where |-> "none"]

\* A click event dispatched on chapter item i, outside any sub-chapter list:
\* main.js:115-130, with loadMarkdown up to its fetch call.
DispatchClick(list, i) ==
    LET r == ChapterClick(list, i)
    IN  /\ chapterList' = r.list
        /\ lastClick' = [seq |-> lastClick.seq + 1, li |-> i, where |-> "header"]
        /\ IF r.load
           THEN /\ loads' = Append(loads, NewLoad(list[i].file, i))
                /\ fetches' = Append(fetches, list[i].file)
           ELSE UNCHANGED <<loads, fetches>>

\* main.js:102-103 the manifest fetch resolves; res.json() starts.
ManifestResponse ==
    /\ manifestPc = "fetching"
    /\ manifestPc' = "parsing"
    /\ UNCHANGED <<data, chapterList, contentDiv, loads, fetches,
                   consoleErrors, clicks, lastClick, wrapVars, splitVars, modalVars, fxVars>>

\* main.js:137-140 the fetch or res.json() rejects: the catch handler.
ManifestFail ==
    /\ manifestPc \in {"fetching", "parsing"}
    /\ manifestPc' = "failed"
    /\ LET err == IF manifestPc = "fetching" THEN "fetch failed"
                  ELSE "invalid JSON"
       IN  /\ contentDiv' = ManifestCatch(err, contentDiv).content
           /\ consoleErrors' = consoleErrors \o ManifestCatch(err, contentDiv).log
    /\ UNCHANGED <<data, chapterList, loads, fetches, clicks, lastClick,
                   wrapVars, splitVars, modalVars, fxVars>>

\* main.js:104-140 res.json() resolves with d: the then(data) handler, the
\* click on the first item, and the catch handler when the handler threw.
ManifestData(d) ==
    /\ manifestPc = "parsing"
    /\ data' = d
    /\ LET r == ManifestThen(chapterList, d)
       IN  IF r.threw
           THEN /\ manifestPc' = "failed"
                /\ chapterList' = r.list
                /\ contentDiv' = ManifestCatch("TypeError", contentDiv).content
                /\ consoleErrors' =
                       consoleErrors \o ManifestCatch("TypeError", contentDiv).log
                /\ UNCHANGED <<loads, fetches, lastClick>>
           ELSE /\ manifestPc' = "done"
                /\ IF r.click THEN DispatchClick(r.list, 1)
                   ELSE /\ chapterList' = r.list
                        /\ UNCHANGED <<loads, fetches, lastClick>>
                /\ UNCHANGED <<contentDiv, consoleErrors>>
    /\ UNCHANGED <<clicks, wrapVars, splitVars, modalVars, fxVars>>

\* main.js:115-130 the user clicks the header of chapter item i.
ClickChapter(i) ==
    /\ clicks < MaxClicks
    /\ i \in 1..Len(chapterList)
    /\ chapterList[i].kind = "chapter"
    /\ clicks' = clicks + 1
    /\ DispatchClick(chapterList, i)
    /\ UNCHANGED <<manifestPc, data, contentDiv, consoleErrors, wrapVars,
                   splitVars, modalVars, fxVars>>

\* main.js:116 the user clicks the sub-chapter list of item i beside its
\* entries: the event bubbles to the item's handler, which returns.
ClickSubList(i) ==
    /\ clicks < MaxClicks
    /\ i \in 1..Len(chapterList)
    /\ chapterList[i].kind = "chapter"
    /\ chapterList[i].subLists # <<>>
    /\ clicks' = clicks + 1
    /\ lastClick' = [seq |-> lastClick.seq + 1, li |-> i, where |-> "sublist"]
    /\ UNCHANGED <<manifestPc, data, chapterList, contentDiv, loads, fetches,
                   consoleErrors, wrapVars, splitVars, modalVars, fxVars>>

\* main.js:67-84 the user clicks entry k of the sub-chapter list of item i:
\* propagation stops, and the card of the entry's h3, when it is still in the
\* document, is scrolled to and given the class pulse-once.
ClickSubLi(i, k) ==
    /\ clicks < MaxClicks
    /\ i \in 1..Len(chapterList)
    /\ chapterList[i].kind = "chapter"
    /\ chapterList[i].subLists # <<>>
    /\ k \in 1..Len(SubItems(chapterList[i]))
    /\ clicks' = clicks + 1
    /\ lastClick' = [seq |-> lastClick.seq + 1, li |-> i, where |-> "subitem"]
    /\ LET id == chapterList[i].subLists[1].items[k].headingId
           hits == {c \in 1..Len(contentDiv) : contentDiv[c].h3id = id}
       IN  IF hits = {} THEN UNCHANGED contentDiv
           ELSE LET c == CHOOSE x \in hits : \A y \in hits : x <= y
                IN  contentDiv' = [contentDiv EXCEPT ![c].pulse = TRUE]
    /\ UNCHANGED <<manifestPc, data, chapterList, loads, fetches,
                   consoleErrors, wrapVars, splitVars, modalVars, fxVars>>

\* main.js:82 animationend on a pulsing card removes pulse-once.
AnimationEnd(c) ==
    /\ c \in 1..Len(contentDiv)
    /\ contentDiv[c].pulse
    /\ contentDiv' = [contentDiv EXCEPT ![c].pulse = FALSE]
    /\ UNCHANGED <<manifestPc, data, chapterList, loads, fetches,
                   consoleErrors, clicks, lastClick, wrapVars, splitVars, modalVars, fxVars>>

\* The promise of load l settles with result r; when it resolves, the
\* then-callback of the click handler runs in the same task:
\* main.js:126-128 buildSubChapterNav(contentContainer, li, chapter.file).
Settle(l, r) ==
    /\ loads' = [loads EXCEPT ![l].phase = "settled",
                              ![l].promise = r.promise,
                              ![l].outcome = r.outcome]
    /\ consoleErrors' = consoleErrors \o r.log
    /\ IF r.promise = "resolved"
       THEN /\ contentDiv' = NavContainer(r.content, loads[l].file)
            /\ chapterList' =
                   [chapterList EXCEPT ![loads[l].li] =
                       NavLi(@, r.content, loads[l].file)]
       ELSE /\ contentDiv' = r.content
            /\ UNCHANGED chapterList
    /\ UNCHANGED <<manifestPc, data, fetches, clicks, lastClick, wrapVars,
                   splitVars, modalVars, fxVars>>

\* content.js:159,187 the fetch of load l rejects (transport error).
FetchRejected(l) ==
    /\ l \in 1..Len(loads)
    /\ loads[l].phase = "fetch"
    /\ Settle(l, LoadCatch(loads[l].file, "fetch failed", contentDiv))

\* content.js:160-163 the fetch of load l resolves: a response that is not
\* ok throws into the catch, an ok one starts res.text().
FetchResponse(l, ok) ==
    /\ l \in 1..Len(loads)
    /\ loads[l].phase = "fetch"
    /\ IF ok
       THEN /\ loads' = [loads EXCEPT ![l].phase = "text"]
            /\ UNCHANGED <<manifestPc, data, chapterList, contentDiv, fetches,
                           consoleErrors, clicks, lastClick, wrapVars,
                           splitVars, modalVars, fxVars>>
       ELSE Settle(l, LoadCatch(loads[l].file, "HTTP error! status", contentDiv))

\* content.js:162,187 res.text() of load l rejects (the body cannot be read).
TextRejected(l) ==
    /\ l \in 1..Len(loads)
    /\ loads[l].phase = "text"
    /\ Settle(l, LoadCatch(loads[l].file, "body not readable", contentDiv))

\* content.js:164-186 res.text() of load l resolves: the then(md) handler;
\* when the processing throws (marked.parse) nothing has been written yet
\* and the catch handler runs.
TextArrived(l, throws) ==
    /\ l \in 1..Len(loads)
    /\ loads[l].phase = "text"
    /\ IF throws
       THEN Settle(l, LoadCatch(loads[l].file, "processing threw", contentDiv))
       ELSE Settle(l, LoadThen(loads[l].file, l, contentDiv))

Next ==
    \/ ManifestResponse
    \/ ManifestFail
    \/ \E d \in Manifests : ManifestData(d)
    \/ \E i \in 1..Len(chapterList) : ClickChapter(i)
    \/ \E i \in 1..Len(chapterList) : ClickSubList(i)
    \/ \E i \in 1..Len(chapterList) :
         \E k \in 1..Len(SubItems(chapterList[i])) : ClickSubLi(i, k)
    \/ \E c \in 1..Len(contentDiv) : AnimationEnd(c)
    \/ \E l \in 1..Len(loads) : FetchRejected(l)
    \/ \E l \in 1..Len(loads), ok \in BOOLEAN : FetchResponse(l, ok)
    \/ \E l \in 1..Len(loads) : TextRejected(l)
    \/ \E l \in 1..Len(loads), throws \in BOOLEAN : TextArrived(l, throws)

Spec == Init /\ [][Next]_vars

(***************************************************************************)
(* Specification of the letter overlay                                     *)
(***************************************************************************)
InitModal ==
    /\ WrapIdle
    /\ SplitIdle
    /\ AppIdle
    /\ ModalIdle
    /\ FxIdle

\* Writes the handlers' result back.
SetModalState(st) ==
    /\ overlayClasses' = st.classes
    /\ overlayClick' = st.click
    /\ windowKeydown' = st.keydown
    /\ modalTimers' = st.timers
    /\ modalOpen' = st.open

\* content.js:51-53 a card with payload letter is clicked: openLetterModal.
OpenLetterModal(letter) ==
    /\ modalEvent.seq < MaxModalOps
    /\ letterModalBody' = BodyFor(letter)
    /\ SetModalState(ShowOverlay(ModalState))
    /\ modalEvent' = [seq |-> modalEvent.seq + 1, op |-> "open",
                      arg |-> letter, closed |-> FALSE]
    /\ UNCHANGED <<wrapVars, splitVars, appVars, fxVars>>

\* A click with the given target reaches the overlay element.
ClickOverlay(target) ==
    /\ modalEvent.seq < MaxModalOps
    /\ LET st == DispatchClickEvent(overlayClick, 1, target, ModalState)
       IN  /\ SetModalState(st)
           /\ modalEvent' = [seq |-> modalEvent.seq + 1, op |-> "click",
                             arg |-> target, closed |-> st.closed]
    /\ UNCHANGED <<letterModalBody, wrapVars, splitVars, appVars, fxVars>>

\* A key is pressed: keydown reaches window.
KeyDown(key) ==
    /\ modalEvent.seq < MaxModalOps
    /\ LET st == DispatchKeyEvent(windowKeydown, 1, key, ModalState)
       IN  /\ SetModalState(st)
           /\ modalEvent' = [seq |-> modalEvent.seq + 1, op |-> "key",
                             arg |-> key, closed |-> st.closed]
    /\ UNCHANGED <<letterModalBody, wrapVars, splitVars, appVars, fxVars>>

\* ui.js:115,126 pending timer k fires.
TimerFires(k) ==
    /\ k \in 1..Len(modalTimers)
    /\ MayFire(modalTimers, k)
    /\ overlayClasses' = TimerCallback(modalTimers[k], overlayClasses)
    /\ modalTimers' = [j \in 1..(Len(modalTimers) - 1) |->
                          IF j < k THEN modalTimers[j] ELSE modalTimers[j + 1]]
    /\ UNCHANGED <<letterModalBody, overlayClick, windowKeydown, modalOpen,
                   modalEvent, wrapVars, splitVars, appVars, fxVars>>

NextModal ==
    \/ \E letter \in Payloads : OpenLetterModal(letter)
    \/ \E target \in ClickTargets : ClickOverlay(target)
    \/ \E key \in Keys : KeyDown(key)
    \/ \E k \in 1..Len(modalTimers) : TimerFires(k)

SpecModal == InitModal /\ [][NextModal]_vars

(***************************************************************************)
(* Specification of the settings and the effects                           *)
(***************************************************************************)
\* A stored value that no version of the controls offers.
Unsupported == "removed-value"

\* The values a key can hold when the page loads: nothing, the empty
\* string, each supported value, and an unsupported one.
StoredValues(key) ==
    {Null, "", Unsupported} \cup
    (CASE key = "appTheme" -> ThemeOptions
       [] key = "appBackground" -> BackgroundValues
       [] key = "bengaliFont" -> BengaliFontOptions
       [] key = "arabicFont" -> ArabicFontOptions
       [] key = "backgroundFx" -> FxOptions
       [] key = "cursorFx" -> CursorFxOptions
       [] key = "particleDensity" -> DensityButtons)

\* The stores of the first page load: empty, or one key holds something.
EmptyStore == [key \in StorageKeys |-> Null]

InitialStores ==
    {EmptyStore} \cup
    UNION {{[EmptyStore EXCEPT ![k] = v] : v \in StoredValues(k)} :
               k \in StorageKeys}

InitFx ==
    /\ WrapIdle
    /\ SplitIdle
    /\ AppIdle
    /\ ModalIdle
    /\ storage \in InitialStores
    /\ page = InitialPage
    /\ fxModules = [m \in Modules |-> ModuleInit]
    /\ windowResize = <<>>
    /\ themeChange = <<>>
    /\ documentMousemove = <<>>
    /\ colorTimers = <<>>
    /\ canvasDisplay = ""
    /\ overlayCanvasDisplay = ""
    /\ currentFxName = "none"
    /\ settingsPc = "loading"
    /\ fxEvent = [seq |-> 0, op |-> "none", arg |-> ""]

\* Writes the effect code's result back.
SetFxState(st) ==
    /\ fxModules' = st.mods
    /\ windowResize' = st.resize
    /\ themeChange' = st.theme
    /\ documentMousemove' = st.mousemove
    /\ canvasDisplay' = st.canvas
    /\ overlayCanvasDisplay' = st.overlay
    /\ currentFxName' = st.current

UserEvent(op, arg) ==
    /\ settingsPc = "ready"
    /\ fxEvent.seq < MaxFxOps
    /\ fxEvent' = [seq |-> fxEvent.seq + 1, op |-> op, arg |-> arg]

\* main.js:100 initSettings(): applySavedSettings, then the listeners of
\* the controls (the one on #theme-select comes after those of the effects).
InitSettings ==
    /\ settingsPc = "loading"
    /\ settingsPc' = "settings"
    /\ LET r == applySavedSettings(storage, page, FxState)
       IN  /\ page' = r.page
           /\ SetFxState([r.fx EXCEPT
                             !.theme = addEventListener(@, "settings")])
    /\ UNCHANGED <<storage, colorTimers, fxEvent, wrapVars, splitVars,
                   appVars, modalVars>>

\* main.js:102 the DOMContentLoaded handler goes on: the manifest fetch.
StartManifestFetch ==
    /\ settingsPc = "settings"
    /\ settingsPc' = "ready"
    /\ manifestPc' = "fetching"
    /\ fetches' = Append(fetches, "chapters.json")
    /\ UNCHANGED <<data, chapterList, contentDiv, loads, consoleErrors,
                   clicks, lastClick, storage, page, fxModules,
                   windowResize, themeChange, documentMousemove,
                   colorTimers, canvasDisplay, overlayCanvasDisplay,
                   currentFxName, fxEvent, wrapVars, splitVars, modalVars>>

\* The user reloads the page: only localStorage survives.
Reload ==
    /\ UserEvent("reload", "")
    /\ settingsPc' = "loading"
    /\ page' = InitialPage
    /\ fxModules' = [m \in Modules |-> ModuleInit]
    /\ windowResize' = <<>>
    /\ themeChange' = <<>>
    /\ documentMousemove' = <<>>
    /\ colorTimers' = <<>>
    /\ canvasDisplay' = ""
    /\ overlayCanvasDisplay' = ""
    /\ currentFxName' = "none"
    /\ manifestPc' = "idle"
    /\ fetches' = <<>>
    /\ UNCHANGED <<data, chapterList, contentDiv, loads, consoleErrors,
                   clicks, lastClick, storage, wrapVars, splitVars,
                   modalVars>>

\* The effects' handleThemeChange listeners of a change event on
\* #theme-select: each sets its 50 ms timeout.
RECURSIVE ThemeListenersOfEffects(_)
ThemeListenersOfEffects(fns) ==
    IF fns = <<>> THEN <<>>
    ELSE (IF Head(fns) \in Modules THEN <<Head(fns)>> ELSE <<>>)
         \o ThemeListenersOfEffects(Tail(fns))

\* settings.js:185-189 the user picks theme t: the change event reaches the
\* listeners of the effects and the one of the settings.
ThemeSelectChange(t) ==
    /\ t # page.themeSelect
    /\ UserEvent("theme", t)
    /\ colorTimers' = colorTimers \o ThemeListenersOfEffects(themeChange)
    /\ IF \E k \in 1..Len(themeChange) : themeChange[k] = "settings"
       THEN /\ page' = updateTheme(page, t)
            /\ storage' = [storage EXCEPT !["appTheme"] = t]
       ELSE /\ page' = [page EXCEPT !.themeSelect = t]
            /\ UNCHANGED storage
    /\ UNCHANGED <<fxModules, windowResize, themeChange, documentMousemove,
                   canvasDisplay, overlayCanvasDisplay, currentFxName,
                   settingsPc, wrapVars, splitVars, appVars, modalVars>>

\* settings.js:192-195 the user picks background v.
BackgroundSelectChange(v) ==
    /\ v # page.backgroundSelect
    /\ UserEvent("background", v)
    /\ page' = updateBackground([page EXCEPT !.backgroundSelect = v])
    /\ storage' = [storage EXCEPT !["appBackground"] = v]
    /\ UNCHANGED <<fxModules, windowResize, themeChange, documentMousemove,
                   colorTimers, canvasDisplay, overlayCanvasDisplay,
                   currentFxName, settingsPc, wrapVars, splitVars, appVars,
                   modalVars>>

\* settings.js:197-200 the user picks Bengali font v.
BengaliFontChange(v) ==
    /\ v # page.bengaliFontSelect
    /\ UserEvent("bengaliFont", v)
    /\ page' = [page EXCEPT !.bengaliFontSelect = v, !.fontBengali = v]
    /\ storage' = [storage EXCEPT !["bengaliFont"] = v]
    /\ UNCHANGED <<fxModules, windowResize, themeChange, documentMousemove,
                   colorTimers, canvasDisplay, overlayCanvasDisplay,
                   currentFxName, settingsPc, wrapVars, splitVars, appVars,
                   modalVars>>

\* settings.js:203-206 the user picks Arabic font v.
ArabicFontChange(v) ==
    /\ v # page.arabicFontSelect
    /\ UserEvent("arabicFont", v)
    /\ page' = [page EXCEPT !.arabicFontSelect = v, !.fontArabic = v]
    /\ storage' = [storage EXCEPT !["arabicFont"] = v]
    /\ UNCHANGED <<fxModules, windowResize, themeChange, documentMousemove,
                   colorTimers, canvasDisplay, overlayCanvasDisplay,
                   currentFxName, settingsPc, wrapVars, splitVars, appVars,
                   modalVars>>

\* settings.js:209-214 the user picks background effect v.
FxSelectChange(v) ==
    /\ v # page.fxSelect
    /\ UserEvent("fx", v)
    /\ page' = [page EXCEPT !.fxSelect = v]
    /\ SetFxState(setActiveFx(FxState, v,
                              SavedValue(storage, "particleDensity")))
    /\ storage' = [storage EXCEPT !["backgroundFx"] = v]
    /\ UNCHANGED <<colorTimers, settingsPc, wrapVars, splitVars, appVars,
                   modalVars>>

\* settings.js:217-231 the user picks cursor effect v.
CursorFxSelectChange(v) ==
    /\ v # page.cursorFxSelect
    /\ UserEvent("cursorFx", v)
    /\ page' = [page EXCEPT !.cursorFxSelect = v]
    /\ storage' = [storage EXCEPT !["cursorFx"] = v]
    /\ SetFxState(SelectCursorFx(FxState, v))
    /\ UNCHANGED <<colorTimers, settingsPc, wrapVars, splitVars, appVars,
                   modalVars>>

\* settings.js:234-244 the user clicks density button b.
DensityClick(b) ==
    /\ UserEvent("density", b)
    /\ page' = [page EXCEPT
                  !.densityActive =
                      (IF @ = {} THEN @
                       ELSE @ \ {CHOOSE a \in @ : TRUE}) \cup {b}]
    /\ SetFxState(setActiveFx(FxState, page.fxSelect, b))
    /\ storage' = [storage EXCEPT !["particleDensity"] = b]
    /\ UNCHANGED <<colorTimers, settingsPc, wrapVars, splitVars, appVars,
                   modalVars>>

\* A pending frame callback of module m runs: animate() draws and requests
\* the next frame.
Frame(m) ==
    /\ fxModules[m].loops > 0
    /\ UserEvent("frame", m)
    /\ fxModules' = [fxModules EXCEPT ![m].frameId = TRUE]
    /\ UNCHANGED <<storage, page, windowResize, themeChange,
                   documentMousemove, colorTimers, canvasDisplay,
                   overlayCanvasDisplay, currentFxName, settingsPc,
                   wrapVars, splitVars, appVars, modalVars>>

\* shooting-stars.js:156-158 an interval of module m ticks.
IntervalTick(m) ==
    /\ fxModules[m].intervals > 0
    /\ UserEvent("interval", m)
    /\ UNCHANGED <<storage, page, fxModules, windowResize, themeChange,
                   documentMousemove, colorTimers, canvasDisplay,
                   overlayCanvasDisplay, currentFxName, settingsPc,
                   wrapVars, splitVars, appVars, modalVars>>

\* The window is resized (handleResize of the registered effects) or the
\* mouse moves (handleMouseMove): particles only.
WindowEvent(type) ==
    /\ UserEvent(type, "")
    /\ UNCHANGED <<storage, page, fxModules, windowResize, themeChange,
                   documentMousemove, colorTimers, canvasDisplay,
                   overlayCanvasDisplay, currentFxName, settingsPc,
                   wrapVars, splitVars, appVars, modalVars>>

\* The oldest 50 ms timeout of a handleThemeChange fires: it recolours the
\* particles of its module.
ColorTimerFires ==
    /\ colorTimers # <<>>
    /\ colorTimers' = Tail(colorTimers)
    /\ UNCHANGED <<storage, page, fxModules, windowResize, themeChange,
                   documentMousemove, canvasDisplay, overlayCanvasDisplay,
                   currentFxName, settingsPc, fxEvent, wrapVars, splitVars,
                   appVars, modalVars>>

NextFx ==
    \/ InitSettings
    \/ StartManifestFetch
    \/ Reload
    \/ \E t \in ThemeOptions : ThemeSelectChange(t)
    \/ \E v \in BackgroundValues : BackgroundSelectChange(v)
    \/ \E v \in BengaliFontOptions : BengaliFontChange(v)
    \/ \E v \in ArabicFontOptions : ArabicFontChange(v)
    \/ \E v \in FxOptions : FxSelectChange(v)
    \/ \E v \in CursorFxOptions : CursorFxSelectChange(v)
    \/ \E b \in DensityButtons : DensityClick(b)
    \/ \E m \in Modules : Frame(m)
    \/ \E m \in Modules : IntervalTick(m)
    \/ \E type \in {"resize", "mousemove"} : WindowEvent(type)
    \/ ColorTimerFires

SpecFx == InitFx /\ [][NextFx]_vars

(***************************************************************************)
(* Properties of the segmentation pass                                     *)
(***************************************************************************)
\* The Arabic block of the claims, U+0600-U+06FF, stated independently of
\* the regex.
InArabicBlock(c) == c \in 1536..1791

RECURSIVE Replacement(_, _)
RECURSIVE KidsReplacement(_, _, _)
KidsReplacement(kids, i, id) ==
    IF i > Len(kids) THEN <<>>
    ELSE LET k == kids[i]
         IN  (IF k.id = id \/ (k.id = 0 /\ k.src = id) THEN <<k>>
              ELSE Replacement(k, id))
             \o KidsReplacement(kids, i + 1, id)
\* The nodes that stand, in document order, where the text node id stood:
\* the node itself when it was left in place, else the nodes created for it.
Replacement(node, id) == KidsReplacement(node.kids, 1, id)

\* The text nodes of the parsed tree that the walk reaches (not under code).
ProcessedTextNodes ==
    {d.node : d \in {x \in Nodes(parsedTree) : x.node.type = 3 /\ ~x.inCode}}

\* The text nodes of the parsed tree under a code element.
CodeTextNodes ==
    {d.node : d \in {x \in Nodes(parsedTree) : x.node.type = 3 /\ x.inCode}}

HasArabic(S) == \E i \in 1..Len(S) : InArabicBlock(S[i])

\* Start positions of the maximal runs of Arabic-block characters of S.
RunStarts(S) ==
    {q \in 1..Len(S) : InArabicBlock(S[q]) /\ (q = 1 \/ ~InArabicBlock(S[q - 1]))}

RunEnd(S, q) ==
    CHOOSE e \in q..Len(S) :
        /\ \A k \in q..e : InArabicBlock(S[k])
        /\ e = Len(S) \/ ~InArabicBlock(S[e + 1])

\* The maximal runs of S, in order.
Runs(S) ==
    [k \in 1..Cardinality(RunStarts(S)) |->
        LET q == CHOOSE r \in RunStarts(S) :
                     Cardinality({x \in RunStarts(S) : x < r}) = k - 1
        IN  SubSeq(S, q, RunEnd(S, q))]

IsCard(node) == node.type = 1 /\ node.cls = "arabic-letter-card"

PayloadOf(node) == node.payload

\* C1: once wrapArabicLetters has run, for every text node it processed the
\* nodes standing in its place are clickable spans and plain text nodes whose
\* texts, concatenated in order, are exactly the original text; a text node
\* without an Arabic character is still the same node; and the text of the
\* whole tree is unchanged.
C1_SegmentationPreservesText ==
    wrapPc = "wrapped" =>
        /\ textContent(tempContainer) = textContent(parsedTree)
        /\ \A n \in ProcessedTextNodes :
             LET repl == Replacement(tempContainer, n.id)
             IN  /\ Concat(SeqMap(textContent, repl)) = n.text
                 /\ \A i \in 1..Len(repl) : repl[i].type = 3 \/ IsCard(repl[i])
                 /\ ~HasArabic(n.text) => repl = <<n>>

\* A processed text node mixing Arabic and other characters was replaced by
\* at least three nodes.
C1_Witness ==
    /\ wrapPc = "wrapped"
    /\ \E n \in ProcessedTextNodes :
         /\ Len(Replacement(tempContainer, n.id)) >= 3
         /\ \E i \in 1..Len(n.text) : ~InArabicBlock(n.text[i])

\* C2: once wrapArabicLetters has run, the spans standing in place of a
\* text node outside code are, in order, one per maximal Arabic run of its
\* text, each labelled with and carrying exactly that run; the text nodes
\* left beside them hold no Arabic character; and every text node under a
\* code element is the node it was, with no span anywhere under code.
C2_OneCardPerRun ==
    wrapPc = "wrapped" =>
        /\ \A n \in ProcessedTextNodes :
             LET repl == Replacement(tempContainer, n.id)
                 cards == SelectSeq(repl, IsCard)
             IN  /\ SeqMap(PayloadOf, cards) = Runs(n.text)
                 /\ SeqMap(textContent, cards) = Runs(n.text)
                 /\ \A i \in 1..Len(repl) :
                      ~IsCard(repl[i]) => ~HasArabic(repl[i].text)
                 /\ \A i \in 1..(Len(repl) - 1) :
                      ~(IsCard(repl[i]) /\ IsCard(repl[i + 1]))
        /\ \A n \in CodeTextNodes :
             [node |-> n, inCode |-> TRUE] \in Nodes(tempContainer)
        /\ \A d \in Nodes(tempContainer) : d.inCode => ~IsCard(d.node)

\* A text outside code with two separate runs, next to a code element whose
\* text holds an Arabic character.
C2_Witness ==
    /\ wrapPc = "wrapped"
    /\ \E n \in ProcessedTextNodes : Cardinality(RunStarts(n.text)) = 2
    /\ \E n \in CodeTextNodes : HasArabic(n.text)

(***************************************************************************)
(* Properties of the section split                                         *)
(***************************************************************************)
\* A delimiter line of S: a line holding only --- and white space around it,
\* with a newline right before it and right after it.  Given as the range
\* of the line without the two newlines.
IsDelimiterLine(S, ls, le) ==
    /\ 2 <= ls /\ ls <= le /\ le < Len(S)
    /\ S[ls - 1] = 10 /\ S[le + 1] = 10
    /\ \A k \in ls..le : S[k] # 10
    /\ \E d \in ls..(le - 2) :
         /\ S[d] = 45 /\ S[d + 1] = 45 /\ S[d + 2] = 45
         /\ \A k \in ls..le : k \notin {d, d + 1, d + 2} => S[k] = 32

DelimiterLines(S) ==
    {r \in [from : 1..Len(S), to : 1..Len(S)] : IsDelimiterLine(S, r.from, r.to)}

\* The delimiter lines in source order.
DelimiterSeq(S) ==
    [k \in 1..Cardinality(DelimiterLines(S)) |->
        CHOOSE r \in DelimiterLines(S) :
            Cardinality({x \in DelimiterLines(S) : x.from < r.from}) = k - 1]

\* The segments the delimiter lines cut S into, each without the newlines
\* that bound its delimiter lines.
Segments(S) ==
    LET ds == DelimiterSeq(S)
        n == Len(ds)
    IN  [k \in 1..(n + 1) |->
            SubSeq(S, IF k = 1 THEN 1 ELSE ds[k - 1].to + 2,
                      IF k = n + 1 THEN Len(S) ELSE ds[k].from - 2)]

Strip(S) ==
    LET idx == {i \in 1..Len(S) : S[i] \notin {10, 32}}
    IN  IF idx = {} THEN <<>>
        ELSE SubSeq(S, CHOOSE i \in idx : \A j \in idx : i <= j,
                       CHOOSE i \in idx : \A j \in idx : i >= j)

NonBlank(S) == Strip(S) # <<>>

SectionMdOf(card) == card.sectionMd

\* C3: once a chapter text is rendered, the cards are, in source order,
\* exactly the segments between its delimiter lines that are non-empty after
\* trimming: one card each, none for an empty segment, none for a delimiter.
C3_OneCardPerNonEmptySegment ==
    splitPc = "rendered" =>
        SeqMap(Strip, SeqMap(SectionMdOf, allCardsHtml))
            = SeqMap(Strip, SelectSeq(Segments(md), NonBlank))

\* C4: once a chapter text is rendered, the text was split at every
\* delimiter line, and no delimiter line lies inside a section handed to
\* the markup converter.
C4_EveryDelimiterLineSplits ==
    splitPc = "rendered" =>
        \A r \in DelimiterLines(md) :
            /\ \E k \in 1..(Len(mdSections) - 1) :
                   mdSections[k].to < r.from /\ mdSections[k + 1].from > r.to
            /\ \A i \in 1..Len(allCardsHtml) :
                   ~(allCardsHtml[i].from <= r.from /\ r.to <= allCardsHtml[i].to)

\* No two delimiter lines with nothing but white space between them.
IsolatedDelimiters(S) ==
    \A r1, r2 \in DelimiterLines(S) :
        r1.to < r2.from =>
            \E k \in (r1.to + 1)..(r2.from - 1) : S[k] \notin {10, 32}

\* With isolated delimiter lines the split agrees with the delimiter lines:
\* C3 and C4 fail only where two delimiter lines share their newline or have
\* only white space between them.
C3_Isolated == IsolatedDelimiters(md) => C3_OneCardPerNonEmptySegment
C4_Isolated == IsolatedDelimiters(md) => C4_EveryDelimiterLineSplits

(***************************************************************************)
(* Properties of the block passes                                          *)
(***************************************************************************)
\* The elements of a tree with one of the given tags.
Blocks(tree, tags) ==
    {d.node : d \in {x \in Nodes(tree) : x.node.type = 1 /\ x.node.tag \in tags}}

\* The element of the tree that is the parsed element id.
ById(tree, id) ==
    CHOOSE n \in {d.node : d \in Nodes(tree)} : n.type = 1 /\ n.id = id

\* The identity of a node, apart from what lies below it: a parsed node by
\* its id, a created one by the text node it stands for and what it holds.
NodeKey(n) ==
    [type |-> n.type, tag |-> n.tag, id |-> n.id, src |-> n.src,
     text |-> n.text, payload |-> n.payload]

ChildKeys(el) == [k \in 1..Len(el.kids) |-> NodeKey(el.kids[k])]

WhiteSpaceOnly(n) == n.type = 3 /\ \A i \in 1..Len(n.text) : IsSpace(n.text[i])

\* Index of the last element child of el, 0 when it has none.
LastElementIndex(el) ==
    LET es == {k \in 1..Len(el.kids) : el.kids[k].type = 1}
    IN  IF es = {} THEN 0 ELSE CHOOSE k \in es : \A j \in es : j <= k

\* el contains an Arabic clickable span.
ContainsCard(el) ==
    \E n \in {d.node : d \in Nodes(el)} : n # el /\ IsCard(n)

\* The last element child of el is an Arabic span.
EndsWithCard(el) ==
    LastElementIndex(el) # 0 /\ IsCard(el.kids[LastElementIndex(el)])

\* Only white-space text follows the last element child of el.
OnlySpaceAfterLastElement(el) ==
    \A k \in (LastElementIndex(el) + 1)..Len(el.kids) : WhiteSpaceOnly(el.kids[k])

\* Characters of the Bengali block of Unicode, U+0980 to U+09FF.
InBengaliBlock(c) == c \in 2432..2559

\* Characters of the range অ-ৎ, U+0985 to U+09CE.
InBengaliRange(c) == c \in 2437..2510

\* This step is the mixed-language pass, or the directionality pass.
StyleNow == wrapPc = "wrapped" /\ wrapPc' = "styled"
RtlNow == wrapPc = "styled" /\ wrapPc' = "directed"

\* Block a is block b laid out as a mixed-language line: two children, the
\* left and the right container, which hold the children of b in their
\* order, the right one the longest run of spans and white-space text that
\* ends b; the right one is right-to-left, the block is marked, and its
\* text is the text of b.
IsMixedLayoutOf(a, b) ==
    /\ Len(a.kids) = 2
    /\ a.kids[1].tag = "span" /\ a.kids[1].cls = "bengali-text"
    /\ a.kids[2].tag = "span" /\ a.kids[2].cls = "arabic-group"
    /\ a.kids[2].dir = "rtl" /\ a.kids[1].dir = ""
    /\ ChildKeys(a.kids[1]) \o ChildKeys(a.kids[2]) = ChildKeys(b)
    /\ a.kids[2].kids # <<>>
    /\ \A k \in 1..Len(a.kids[2].kids) :
         IsCard(a.kids[2].kids[k]) \/ WhiteSpaceOnly(a.kids[2].kids[k])
    /\ a.kids[1].kids # <<>> =>
         LET last == a.kids[1].kids[Len(a.kids[1].kids)]
         IN  ~IsCard(last) /\ ~WhiteSpaceOnly(last)
    /\ a.cls = "mixed-language-line"
    /\ textContent(a) = textContent(b)

C25_OtherBlocksUntouched ==
    [][ StyleNow =>
          \A b \in Blocks(tempContainer, {"p", "li"}) :
              (\/ ~ContainsCard(b)
               \/ \A i \in 1..Len(textContent(b)) :
                      ~InBengaliBlock(textContent(b)[i])
               \/ ~EndsWithCard(b)
               \/ ~OnlySpaceAfterLastElement(b))
                  => LET a == ById(tempContainer', b.id)
                     IN  /\ ChildKeys(a) = ChildKeys(b)
                         /\ a.cls = b.cls
                         /\ a.dir = b.dir
      ]_vars

\* A paragraph with Bengali text, an Arabic span and text after the span
\* went through the pass and is as it was.
C25_Witness ==
    /\ wrapPc = "styled"
    /\ \E a \in Blocks(tempContainer, {"p"}) :
         /\ a.cls = ""
         /\ Len(a.kids) = 3
         /\ a.kids[1].type = 3 /\ bengaliRegexTest(a.kids[1].text)
         /\ IsCard(a.kids[2])
         /\ a.kids[3].type = 3 /\ ~WhiteSpaceOnly(a.kids[3])

\* Letters of the Latin, Cyrillic and Bengali scripts: A-Z, a-z and the
\* letters of Latin-1 and the Latin Extended blocks; the Cyrillic block;
\* the letters of the Bengali block.
IsLatinLetter(c) ==
    c \in (65..90) \cup (97..122) \cup ((192..591) \ {215, 247})
IsCyrillicLetter(c) == c \in (1024..1153) \cup (1162..1279)
IsBengaliLetter(c) ==
    c \in (2437..2444) \cup {2447, 2448} \cup (2451..2472) \cup (2474..2480)
           \cup {2482} \cup (2486..2489) \cup {2493, 2510, 2524, 2525}
           \cup (2527..2529) \cup {2544, 2545}

\* Characters of the ranges a-z, A-Z, а-я, А-Я and অ-ৎ.
InTestedRanges(c) ==
    c \in (97..122) \cup (65..90) \cup (1072..1103) \cup (1040..1071)
           \cup (2437..2510)

\* Block a is block b with the direction and alignment of a right-to-left
\* block, or with those b had.
IsDirected(a, b, rtl) ==
    IF rtl
    THEN /\ a.direction = "rtl"
         /\ a.textAlign = IF \E i \in 1..Len(textContent(b)) :
                                  textContent(b)[i] = 45
                           THEN "right" ELSE "center"
    ELSE a.direction = b.direction /\ a.textAlign = b.textAlign

C29_MixedLineIsNotRtl ==
    wrapPc = "directed" =>
        \A b \in Blocks(tempContainer, {"p", "li"}) :
            ~(b.cls = "mixed-language-line" /\ b.direction = "rtl")

\* Of two list items of one list, the first is a mixed-language line and
\* not right-to-left, the second right-to-left and not a mixed line.
C29_Witness ==
    /\ wrapPc = "directed"
    /\ \E l \in Blocks(tempContainer, {"ul"}) :
         /\ Len(l.kids) = 2
         /\ l.kids[1].cls = "mixed-language-line" /\ l.kids[1].direction = ""
         /\ l.kids[2].cls = "" /\ l.kids[2].direction = "rtl"

(***************************************************************************)
(* Properties of the page                                                  *)
(***************************************************************************)
InFlight == {l \in 1..Len(loads) : loads[l].phase # "settled"}

\* The file names a chapter item of the manifests can carry.
ChapterFiles == {"a.md", "b.md", "undefined"}

\* Number of cards of each chapter file: its segments that are not blank.
CardCounts ==
    [file \in ChapterFiles |->
        Len(SelectSeq(Segments(ChapterMd(file)), NonBlank))]

CardCount(file) == CardCounts[file]

\* The container holds exactly the cards of render l, all of them, in order.
IsRenderOf(container, l) ==
    /\ Len(container) = CardCount(loads[l].file)
    /\ \A k \in 1..Len(container) :
         /\ container[k].kind = "card"
         /\ container[k].render = l
         /\ container[k].file = loads[l].file
         /\ container[k].idx = k - 1

IsSingleMessage(container) ==
    Len(container) = 1 /\ container[1].kind \in {"error", "manifestError"}

\* C5: between tasks the content container holds its initial content, or
\* the complete card list of one render, or a single error message; never
\* cards of two renders or part of a render.
C5_ContentIsOneRender ==
    \/ contentDiv = InitialContent
    \/ IsSingleMessage(contentDiv)
    \/ \E l \in 1..Len(loads) : IsRenderOf(contentDiv, l)

\* Two loads overlapped, both succeeded, and the container shows the cards
\* of the one started first (it completed last).
C5_Witness ==
    /\ Len(loads) >= 2
    /\ loads[1].outcome = "ok" /\ loads[2].outcome = "ok"
    /\ loads[1].file # loads[2].file
    /\ Len(contentDiv) >= 2
    /\ IsRenderOf(contentDiv, 1)

\* Load l fails in this step.
FailsNow(l) ==
    /\ loads[l].phase # "settled"
    /\ loads'[l].phase = "settled"
    /\ loads'[l].outcome = "error"

\* The step added exactly one console.error entry, about file.
LoggedNow(file) ==
    /\ Len(consoleErrors') = Len(consoleErrors) + 1
    /\ SubSeq(consoleErrors', 1, Len(consoleErrors)) = consoleErrors
    /\ consoleErrors'[Len(consoleErrors')].file = file

\* C6: in the step in which a chapter load fails, its promise resolves, the
\* container holds exactly one error message naming the file, one log entry
\* is made and no fetch is issued; no promise of loadMarkdown is ever
\* rejected; and a file whose load has failed is fetched again only in a
\* step that is a user click.
C6_FailedLoadResolvesWithMessage ==
    [][ /\ \A l \in 1..Len(loads) :
             FailsNow(l) =>
                 /\ loads'[l].promise = "resolved"
                 /\ Len(contentDiv') = 1
                 /\ contentDiv'[1].kind = "error"
                 /\ contentDiv'[1].file = loads[l].file
                 /\ LoggedNow(loads[l].file)
                 /\ fetches' = fetches
        /\ \A l \in 1..Len(loads') : loads'[l].promise # "rejected"
        /\ \A l \in 1..Len(loads) :
             (/\ loads[l].outcome = "error"
              /\ Len(fetches') > Len(fetches)
              /\ fetches'[Len(fetches')] = loads[l].file)
                 => clicks' = clicks + 1
      ]_vars

\* A load failed after another one had rendered, and its message replaced
\* the cards.
C6_Witness ==
    \E l, g \in 1..Len(loads) :
        /\ loads[l].outcome = "error" /\ loads[l].promise = "resolved"
        /\ loads[g].outcome = "ok"
        /\ contentDiv = LoadErrorMessage(loads[l].file)

\* C7: there is never a state with two chapter loads in flight (each load in
\* flight writes to the content container when it completes).
C7_AtMostOneLoadInFlight == Cardinality(InFlight) <= 1

ActiveMarks(list) == [k \in 1..Len(list) |-> list[k].active]

\* C8: a user click on the header of an active chapter item starts no fetch
\* and changes nothing but the expansion of an existing sub-list; on a
\* non-active item it marks the item active and starts exactly one fetch, of
\* that item's file; a click inside a sub-chapter list starts no fetch and
\* changes no active mark.
C8_ClickStartsAtMostOneLoad ==
    [][ clicks' = clicks + 1 =>
          LET i == lastClick'.li
              li == chapterList[i]
          IN  /\ lastClick'.where = "header" /\ li.active =>
                    /\ fetches' = fetches /\ loads' = loads
                    /\ ActiveMarks(chapterList') = ActiveMarks(chapterList)
                    /\ li.subLists = <<>> => chapterList' = chapterList
                    /\ li.subLists # <<>> =>
                         chapterList' =
                           [chapterList EXCEPT
                               ![i].expanded = ~li.expanded,
                               ![i].subLists[1].collapsed =
                                   ~li.subLists[1].collapsed]
              /\ lastClick'.where = "header" /\ ~li.active =>
                    /\ chapterList'[i].active
                    /\ fetches' = Append(fetches, li.file)
                    /\ Len(loads') = Len(loads) + 1
                    /\ loads'[Len(loads')].file = li.file
                    /\ loads'[Len(loads')].phase = "fetch"
                    /\ SubSeq(loads', 1, Len(loads)) = loads
              /\ lastClick'.where \in {"sublist", "subitem"} =>
                    /\ fetches' = fetches /\ loads' = loads
                    /\ chapterList' = chapterList
      ]_vars

\* The user clicked the header of the active item while its load was
\* pending: only the startup load exists.
C8_Witness ==
    /\ clicks >= 1
    /\ lastClick.where = "header"
    /\ Len(chapterList) = 2
    /\ chapterList[lastClick.li].active
    /\ Len(loads) = 1
    /\ loads[1].phase # "settled"
    /\ loads[1].li = lastClick.li
\* The manifest handler has run on the parsed value.
ManifestHandled == manifestPc \in {"done", "failed"} /\ data.t # "none"

\* A list of chapter records: an object whose chapters is a non-empty array
\* of records.
IsChapterList(d) ==
    /\ d.t = "object"
    /\ d.chapters.t = "array"
    /\ d.chapters.elems # <<>>
    /\ \A k \in 1..Len(d.chapters.elems) : d.chapters.elems[k].t = "record"

NoChapterFetch == fetches = <<"chapters.json">> /\ loads = <<>>

\* C9 (as claimed): once the manifest handler has run on a value that is not
\* a non-empty list of chapter records (empty or malformed), the sidebar
\* holds the single 'No chapters found.' entry, there is no chapter item and
\* no chapter fetch was started.
C9_MalformedTreatedAsEmpty ==
    ManifestHandled /\ ~IsChapterList(data) =>
        /\ chapterList = <<NoChaptersLi>>
        /\ NoChapterFetch

\* An object whose chapters is missing, falsy or an empty array.
IsEmptyManifest(d) ==
    /\ d.t = "object"
    /\ \/ d.chapters.t \in {"undefined", "null"}
       \/ d.chapters.t \in {"number", "string"} /\ d.chapters.n = 0
       \/ d.chapters.t = "array" /\ d.chapters.elems = <<>>

\* A value on which the handler throws before it appends an item: null, a
\* chapters value that is truthy and not an array, or an array whose first
\* element is null.
ThrowsBeforeFirstItem(d) ==
    \/ d.t = "null"
    \/ /\ d.t = "object"
       /\ \/ d.chapters.t \in {"number", "string"} /\ d.chapters.n # 0
          \/ /\ d.chapters.t = "array" /\ d.chapters.elems # <<>>
             /\ d.chapters.elems[1].t \in {"null", "undefined"}

\* C9 (amended): once the manifest handler has run, an object whose chapters
\* is missing, falsy or an empty array has left the single 'No chapters
\* found.' entry, no chapter item and no chapter fetch; a value on which the
\* handler throws before the first item has left no chapter item and no
\* chapter fetch either, but the sidebar empty and the load-error message
\* and a log entry in place of the 'No chapters found.' entry.
C9_EmptyManifestShowsNoChapters ==
    ManifestHandled =>
        /\ IsEmptyManifest(data) =>
             /\ manifestPc = "done"
             /\ chapterList = <<NoChaptersLi>>
             /\ NoChapterFetch
        /\ ThrowsBeforeFirstItem(data) =>
             /\ manifestPc = "failed"
             /\ chapterList = <<>>
             /\ NoChapterFetch
             /\ contentDiv = ManifestErrorMessage
             /\ Len(consoleErrors) = 1
             /\ consoleErrors[1].file = "chapters.json"

\* The manifest was an object without a chapters property, and the sidebar
\* shows the 'No chapters found.' entry.
C9_Witness ==
    /\ manifestPc = "done"
    /\ data = DataObject(JsUndefined)
    /\ chapterList = <<NoChaptersLi>>

\* The three error cases, as steps.
ManifestFailsNow == manifestPc # "failed" /\ manifestPc' = "failed"
EmptyManifestNow ==
    manifestPc # "done" /\ manifestPc' = "done" /\ IsEmptyManifest(data')
LoadFailsNow(l) == FailsNow(l)

HoldsMessage(container) == IsSingleMessage(container)

\* C10 (as claimed): each of the three error cases ends, in its step, with a
\* message in the content area and a new log entry, and starts no fetch.
C10_AllErrorsInContentAndLogged ==
    [][ (\/ ManifestFailsNow
         \/ EmptyManifestNow
         \/ \E l \in 1..Len(loads) : LoadFailsNow(l))
        => /\ HoldsMessage(contentDiv')
           /\ Len(consoleErrors') = Len(consoleErrors) + 1
           /\ fetches' = fetches
      ]_vars

\* C10 (amended): a manifest load failure and a chapter load failure each
\* end, in their step, with their message as the only content of the content
\* area and one new log entry; an empty manifest ends with the 'No chapters
\* found.' entry in the sidebar, the content area and the log untouched;
\* none of the three starts a fetch, and the manifest is fetched once only.
C10_ErrorsReportedOnce ==
    [][ /\ ManifestFailsNow =>
             /\ contentDiv' = ManifestErrorMessage
             /\ LoggedNow("chapters.json")
             /\ fetches' = fetches
        /\ \A l \in 1..Len(loads) :
             LoadFailsNow(l) =>
                 /\ contentDiv' = LoadErrorMessage(loads[l].file)
                 /\ LoggedNow(loads[l].file)
                 /\ fetches' = fetches
        /\ EmptyManifestNow =>
             /\ chapterList' = <<NoChaptersLi>>
             /\ contentDiv' = contentDiv
             /\ consoleErrors' = consoleErrors
             /\ fetches' = fetches
        /\ Cardinality({k \in 1..Len(fetches') : fetches'[k] = "chapters.json"}) = 1
      ]_vars

\* The manifest was empty: the entry is in the sidebar, the content area
\* still holds its initial content and nothing was logged.
C10_Witness ==
    /\ manifestPc = "done"
    /\ data = DataObject(JsArray(<<>>))
    /\ chapterList = <<NoChaptersLi>>
    /\ contentDiv = InitialContent
    /\ consoleErrors = <<>>

\* Load l completes successfully in this step.
SucceedsNow(l) ==
    /\ loads[l].phase # "settled"
    /\ loads'[l].phase = "settled"
    /\ loads'[l].outcome = "ok"

\* This step is a user click on the header of a chapter item other than
\* the item of a load that has failed.
ClicksOtherAfterFailure ==
    /\ clicks' = clicks + 1
    /\ lastClick'.where = "header"
    /\ \E x \in 1..Len(loads) :
         loads[x].outcome = "error" /\ loads[x].li # lastClick'.li

\* C11: after the load of a chapter has failed, a click on the header of
\* any other chapter item starts a load of that item's file; and in the step
\* in which a load succeeds the container holds exactly the cards of that
\* load and no error message.
C11_FailedLoadDoesNotBlockOthers ==
    [][ /\ ClicksOtherAfterFailure =>
              /\ Len(loads') = Len(loads) + 1
              /\ loads'[Len(loads')].file = chapterList[lastClick'.li].file
              /\ loads'[Len(loads')].phase = "fetch"
        /\ \A l \in 1..Len(loads) :
              SucceedsNow(l) =>
                  /\ IsRenderOf(contentDiv', l)
                  /\ \A k \in 1..Len(contentDiv') :
                         contentDiv'[k].kind # "error"
      ]_vars

\* The same statement for the clicks that follow a failure of the load
\* started last (the item of the failed load is the active one).
C11_AfterFailureOfLatestLoad ==
    [][ (ClicksOtherAfterFailure /\ loads[Len(loads)].outcome = "error"
           /\ lastClick'.li # loads[Len(loads)].li) =>
              /\ Len(loads') = Len(loads) + 1
              /\ loads'[Len(loads')].file = chapterList[lastClick'.li].file
              /\ loads'[Len(loads')].phase = "fetch"
      ]_vars

\* The cards loadMarkdown renders for load l, before buildSubChapterNav.
RenderedFor(l) == RenderedCards(loads[l].file, ChapterMd(loads[l].file), l)

HasH2(c) == c.h2 # <<>>
HasHeadingPair(c) == c.h2 # <<>> /\ c.h3

\* The trimmed texts of the secondary headings of a sequence of cards.
TitlesOf(cards) == [k \in 1..Len(cards) |-> Trim(cards[k].h2[1])]

\* The texts of the entries of the sub-chapter list of a chapter item.
EntryTexts(li) == [k \in 1..Len(SubItems(li)) |-> SubItems(li)[k].text]

Shown(container) ==
    [k \in 1..Len(container) |->
        [kind |-> container[k].kind, file |-> container[k].file,
         render |-> container[k].render, idx |-> container[k].idx]]

CompletesNow(l) == loads[l].phase # "settled" /\ loads'[l].phase = "settled"

\* C23: a click never cancels a load: every load started stays in the
\* list with its file and item, a load in flight only moves forward (fetch,
\* text, settled), and a settled one is final.  Each completion replaces the content container, by exactly the
\* cards of the completing load or by its error message, whichever item is
\* marked active; and no step in which no load completes changes what the
\* container shows, so that the container shows the load completed last.
C23_OverlappingLoadsBothComplete ==
    [][ /\ Len(loads') >= Len(loads)
        /\ \A l \in 1..Len(loads) :
             /\ loads'[l].file = loads[l].file /\ loads'[l].li = loads[l].li
             /\ loads[l].phase = "settled" => loads'[l] = loads[l]
             /\ loads[l].phase = "text" => loads'[l].phase # "fetch"
             /\ SucceedsNow(l) => IsRenderOf(contentDiv', l)
             /\ FailsNow(l) => contentDiv' = LoadErrorMessage(loads[l].file)
        /\ (loads # <<>> /\ \A l \in 1..Len(loads) : ~CompletesNow(l))
             => Shown(contentDiv') = Shown(contentDiv)
      ]_vars

\* The user clicked b.md while the startup load of a.md was in flight; both
\* loads succeeded, the one of b.md first: b.md is the active item and the
\* container shows the cards of a.md.
C23_Witness ==
    /\ Len(loads) = 2
    /\ loads[1].file = "a.md" /\ loads[2].file = "b.md"
    /\ loads[1].outcome = "ok" /\ loads[2].outcome = "ok"
    /\ chapterList[loads[2].li].active /\ ~chapterList[loads[1].li].active
    /\ IsRenderOf(contentDiv, 1)

\* C26: every chapter item that carries a sub-chapter list or one of the
\* marks has-sub-chapters and expanded is the one active chapter item.
C26_SubListOnlyOnActiveItem ==
    /\ Cardinality({k \in 1..Len(chapterList) : chapterList[k].active}) <= 1
    /\ \A k \in 1..Len(chapterList) :
         (\/ chapterList[k].subLists # <<>>
          \/ chapterList[k].hasSubChapters
          \/ chapterList[k].expanded) => chapterList[k].active

\* In the behaviours in which loads never overlap, the statement of C26
\* holds.
C26_WithoutOverlappingLoads ==
    []C7_AtMostOneLoadInFlight => []C26_SubListOnlyOnActiveItem

\* C27: a chapter item that has a sub-chapter list is marked expanded if
\* and only if that list is not marked collapsed.
C27_ExpandedIffNotCollapsed ==
    \A k \in 1..Len(chapterList) :
        chapterList[k].subLists # <<>> =>
            (chapterList[k].expanded <=> ~chapterList[k].subLists[1].collapsed)

\* In the behaviours in which loads never overlap, the statement of C27
\* holds.
C27_WithoutOverlappingLoads ==
    []C7_AtMostOneLoadInFlight => []C27_ExpandedIffNotCollapsed

(***************************************************************************)
(* Properties of the letter overlay                                        *)
(***************************************************************************)
\* This step is a call of openLetterModal.
OpensNow ==
    /\ modalEvent'.seq = modalEvent.seq + 1
    /\ modalEvent'.op = "open"

RECURSIVE Pow10(_)
Pow10(n) == IF n = 0 THEN 1 ELSE 10 * Pow10(n - 1)

\* text is n written in Bengali digits (U+09E6 to U+09EF), one for each
\* decimal digit of n, most significant first.
IsBengaliNumeralOf(text, n) ==
    /\ Len(text) = (IF n < 10 THEN 1 ELSE IF n < 100 THEN 2 ELSE 3)
    /\ \A k \in 1..Len(text) :
         text[k] = 2534 + ((n \div Pow10(Len(text) - k)) % 10)

\* C12: openLetterModal with a one-character payload shows the letter, its
\* three examples and its tripled form; for a key of the letter table the
\* body also holds the Arabic, Bengali and English name of that letter and
\* one index box with the letter's articulation index, between 1 and 16,
\* in Bengali digits; for any other character the body holds neither a name
\* block nor an index box.
C12_SingleLetterBody ==
    [][ (OpensNow /\ Len(modalEvent'.arg) = 1) =>
          LET c == modalEvent'.arg[1]
              b == letterModalBody'
          IN  /\ b.display = <<c>>
              /\ b.examples = <<<<c, 1575>>, <<c, 1608>>, <<c, 1610>>>>
              /\ b.positional = <<c, c, c>>
              /\ b.text = <<>>
              /\ c \in DOMAIN letterData =>
                    /\ Len(b.names) = 3
                    /\ b.names[1].text = letterData[c].name.arabic
                    /\ b.names[2].text = letterData[c].name.bengali
                    /\ b.names[3].text = letterData[c].name.english
                    /\ Len(b.makhrajBox) = 1
                    /\ letterData[c].makhraj \in 1..16
                    /\ IsBengaliNumeralOf(b.makhrajBox[1].text,
                                          letterData[c].makhraj)
              /\ c \notin DOMAIN letterData =>
                    /\ b.names = <<>>
                    /\ b.makhrajBox = <<>>
              /\ "modal-hidden" \notin overlayClasses'
              /\ \A k \in DOMAIN letterData :
                    /\ letterData[k].makhraj \in 1..16
                    /\ IsBengaliNumeralOf(
                           toBengaliNumerals(letterData[k].makhraj),
                           letterData[k].makhraj)
      ]_vars

\* The overlay was opened for alif: its index box reads 16 in Bengali
\* digits.
C12_Witness ==
    /\ modalEvent.op = "open"
    /\ modalEvent.arg = <<1575>>
    /\ Len(letterModalBody.makhrajBox) = 1
    /\ letterModalBody.makhrajBox[1].text = <<2535, 2540>>
    /\ Len(letterModalBody.names) = 3

\* The overlay was opened for a character that is not in the letter table.
C12_UnknownLetterShown ==
    /\ modalEvent.op = "open"
    /\ modalEvent.arg = <<1600>>
    /\ letterModalBody.names = <<>>
    /\ letterModalBody.display = <<1600>>
    /\ modalOpen

\* C13: openLetterModal with a payload of n > 1 characters sets the body
\* text to the n characters separated by ' + ', then ' = ', then the
\* payload; the body has none of the blocks of the single-letter view.
C13_CombinedBody ==
    [][ (OpensNow /\ Len(modalEvent'.arg) > 1) =>
          LET letter == modalEvent'.arg
              n == Len(letter)
              t == letterModalBody'.text
              b == letterModalBody'
          IN  /\ Len(t) = (4 * n - 3) + 3 + n
              /\ \A k \in 1..n : t[4 * (k - 1) + 1] = letter[k]
              /\ \A k \in 1..(n - 1) :
                   SubSeq(t, 4 * k - 2, 4 * k) = <<32, 43, 32>>
              /\ SubSeq(t, 4 * n - 2, 4 * n) = <<32, 61, 32>>
              /\ SubSeq(t, 4 * n + 1, 5 * n) = letter
              /\ b.names = <<>> /\ b.makhrajBox = <<>>
              /\ b.display = <<>> /\ b.examples = <<>> /\ b.positional = <<>>
              /\ "single-letter-view" \notin b.cls
      ]_vars

\* The overlay was opened for the run alif kaf after a single letter had
\* been shown.
C13_Witness ==
    /\ modalEvent.op = "open"
    /\ modalEvent.seq >= 2
    /\ modalEvent.arg = <<1575, 1603>>
    /\ letterModalBody.text =
           <<1575, 32, 43, 32, 1603, 32, 61, 32, 1575, 1603>>

\* This step handles a click on the overlay or a key press.
ClickOrKeyNow ==
    /\ modalEvent'.seq = modalEvent.seq + 1
    /\ modalEvent'.op \in {"click", "key"}

\* The step closed the overlay: visible is removed, the hide timer is set
\* and both listeners are gone.
ClosesNow ==
    /\ ~modalOpen'
    /\ overlayClasses' = overlayClasses \ {"visible"}
    /\ modalTimers' = Append(modalTimers, "hide")
    /\ overlayClick' = <<>>
    /\ windowKeydown' = <<>>

\* The step left the overlay as it was.
StaysOpenNow ==
    /\ modalOpen'
    /\ UNCHANGED <<overlayClasses, modalTimers, overlayClick, windowKeydown,
                   letterModalBody>>

\* C14: while the overlay is open, a click on the close control, a click
\* on the overlay outside its container and the Escape key each close it;
\* a click on the container or the body and any other key leave it open.
C14_ThreeTriggersClose ==
    [][ (modalOpen /\ ClickOrKeyNow) =>
          LET e == modalEvent'
              trigger == \/ e.op = "click" /\ e.arg \in {"overlay", CloseControl}
                         \/ e.op = "key" /\ e.arg = "Escape"
          IN  IF trigger THEN ClosesNow ELSE StaysOpenNow
      ]_vars

\* C14 as the code has it: while the overlay is open, a click whose target
\* is the overlay element itself and the Escape key each close it; a click
\* on anything inside the overlay (container, body, a control) and any
\* other key leave it open.
C14_OverlayClickAndEscapeClose ==
    [][ (modalOpen /\ ClickOrKeyNow) =>
          LET e == modalEvent'
              trigger == \/ e.op = "click" /\ e.arg = "overlay"
                         \/ e.op = "key" /\ e.arg = "Escape"
          IN  IF trigger THEN ClosesNow ELSE StaysOpenNow
      ]_vars

\* The overlay was open and shown, other keys were pressed, and Escape
\* closed it.
C14_Witness ==
    /\ modalEvent.op = "key"
    /\ modalEvent.arg = "Escape"
    /\ modalEvent.closed
    /\ modalEvent.seq >= 3
    /\ ~modalOpen
    /\ modalTimers = <<"hide">>
    /\ "visible" \notin overlayClasses

\* C15: at most one click listener is registered on the overlay and at
\* most one keydown listener on window, whatever opens (also of an open
\* overlay) and closes have happened; after a close, until the next open,
\* neither is registered.
C15_AtMostOneListenerEach ==
    /\ Len(overlayClick) <= 1
    /\ Len(windowKeydown) <= 1
    /\ (modalEvent.closed \/ ~modalOpen) =>
           overlayClick = <<>> /\ windowKeydown = <<>>

\* The overlay was opened twice with no close in between (both show timers
\* are pending): one listener each.
C15_Witness ==
    /\ modalTimers = <<"show", "show">>
    /\ modalOpen
    /\ Len(overlayClick) = 1
    /\ Len(windowKeydown) = 1
    /\ modalEvent.seq >= 3

\* C28: once all pending overlay timers have fired, the marks of the overlay
\* agree with the last of the opens and closes: after an open it is marked
\* visible and not modal-hidden, after a close modal-hidden and not visible.
C28_MarksAgreeWithLastOperation ==
    (modalTimers = <<>> /\ modalEvent.seq > 0) =>
        IF modalOpen
        THEN "visible" \in overlayClasses /\ "modal-hidden" \notin overlayClasses
        ELSE "modal-hidden" \in overlayClasses /\ "visible" \notin overlayClasses

\* In the behaviours in which every open and close comes after the timer
\* of the one before it has fired (never two timers pending), the statement
\* of C28 holds.
C28_WhenTimersFireBetweenOperations ==
    [](Len(modalTimers) <= 1) => []C28_MarksAgreeWithLastOperation

(***************************************************************************)
(* Properties of the settings and the effects                              *)
(***************************************************************************)
\* Number of times fn is in a listener list.
Registered(list, fn) == Cardinality({k \in 1..Len(list) : list[k] = fn})

\* Background module m has something registered: a pending frame callback,
\* an interval, or a resize or theme listener.
BackgroundActive(m) ==
    \/ fxModules[m].loops > 0
    \/ fxModules[m].intervals > 0
    \/ Registered(windowResize, m) > 0
    \/ Registered(themeChange, m) > 0

\* C16: whatever calls of setActiveFx have happened (startup, effect
\* changes, density changes), the only background module with a pending
\* frame callback, an interval or a resize or theme listener is the one
\* named by the latest call, and it has at most one of each: the module
\* that was running was stopped before the requested one was started.
C16_OneBackgroundEffect ==
    \A m \in BackgroundModules :
        /\ BackgroundActive(m) => currentFxName = m
        /\ fxModules[m].loops <= 1
        /\ fxModules[m].intervals <= 1
        /\ Registered(windowResize, m) <= 1
        /\ Registered(themeChange, m) <= 1

\* Sparkles was running when the theme changed (its 50 ms timeout is still
\* pending) and the user then selected shooting stars: only shooting stars
\* has anything registered.
C16_Witness ==
    /\ fxEvent.op = "fx"
    /\ fxEvent.arg = "shooting-stars"
    /\ colorTimers = <<"sparkles">>
    /\ currentFxName = "shooting-stars"
    /\ fxModules["shooting-stars"].loops = 1
    /\ fxModules["shooting-stars"].intervals = 1
    /\ windowResize = <<"shooting-stars">>
    /\ ~BackgroundActive("sparkles")

\* The cursor effect the stored name selects.
SelectedCursorModule ==
    LET name == storage["cursorFx"]
    IN  IF name \in CursorModules THEN {name} ELSE {}

\* C17: once the settings are initialised, the cursor modules that run are
\* exactly the one the latest selection (the stored name) names, none for
\* 'none', a missing or an unknown name; a running module has one pending
\* frame callback and one mousemove and one theme listener, one that does
\* not run has none; start on a running module and stop on one that does
\* not run leave the whole state as it is.
C17_OneCursorEffect ==
    settingsPc \in {"settings", "ready"} =>
      \A m \in CursorModules :
        /\ fxModules[m].isRunning <=> m \in SelectedCursorModule
        /\ fxModules[m].loops = (IF fxModules[m].isRunning THEN 1 ELSE 0)
        /\ Registered(documentMousemove, m) = fxModules[m].loops
        /\ Registered(themeChange, m) = fxModules[m].loops
        /\ fxModules[m].isRunning => CursorStart(FxState, m) = FxState
        /\ ~fxModules[m].isRunning => CursorStop(FxState, m) = FxState

\* The user selected bouncing balls while fireflies was running.
C17_Witness ==
    /\ fxEvent.op = "cursorFx"
    /\ fxEvent.arg = "bouncing-balls"
    /\ fxEvent.seq >= 2
    /\ fxModules["bouncing-balls"].isRunning
    /\ ~fxModules["fireflies"].isRunning
    /\ fxModules["fireflies"].loops = 0
    /\ documentMousemove = <<"bouncing-balls">>
    /\ overlayCanvasDisplay = "block"

\* The values the program supports for a key.
Supported(key) ==
    CASE key = "appTheme" -> ThemeOptions
      [] key = "bengaliFont" -> BengaliFontOptions
      [] key = "arabicFont" -> ArabicFontOptions
      [] key = "backgroundFx" -> FxOptions
      [] key = "cursorFx" -> CursorFxOptions
      [] key = "particleDensity" -> DensityButtons

\* The classes of the body that end with '-theme'.
ThemeClassesOf(pg) == {c \in pg.bodyClasses : c.suffix = "-theme"}

\* The theme classes a body has when theme t is applied: none for the
\* light theme, t-theme otherwise.
ExpectedThemeClasses(t) ==
    IF t = "light" THEN {} ELSE {[stem |-> t, suffix |-> "-theme"]}

\* The default of key is what the page and the effects show.
DefaultApplied(key, pg, mods, current) ==
    CASE key = "appTheme" -> ThemeClassesOf(pg) = {}
      [] key = "bengaliFont" -> pg.fontBengali = "'Amiri', serif"
      [] key = "arabicFont" -> pg.fontArabic = "'Noto Naskh Arabic', serif"
      [] key = "backgroundFx" ->
             current = "sparkles" /\ mods["sparkles"].loops = 1
      [] key = "cursorFx" -> \A m \in CursorModules : ~mods[m].isRunning
      [] key = "particleDensity" ->
             /\ pg.densityActive = {"medium"}
             /\ current \in BackgroundModules =>
                    mods[current].density = "medium"

\* This step is initSettings.
InitSettingsNow == settingsPc = "loading" /\ settingsPc' = "settings"

\* C18: for each of the six settings, when nothing is stored under its key
\* or the stored value is not a supported one, initSettings leaves the
\* setting's default applied.
C18_UnsupportedValuesGetDefault ==
    [][ InitSettingsNow =>
          \A key \in StorageKeys \ {"appBackground"} :
              storage[key] \notin Supported(key) =>
                  DefaultApplied(key, page', fxModules', currentFxName')
      ]_vars

\* The part of C18 that holds: a key with nothing stored (or the empty
\* string) gets its default, and so does an unsupported name of the
\* background effect or of the cursor effect.
C18_AbsentValuesGetDefault ==
    [][ InitSettingsNow =>
          \A key \in StorageKeys \ {"appBackground"} :
              (\/ storage[key] \in {Null, ""}
               \/ /\ key \in {"backgroundFx", "cursorFx"}
                  /\ storage[key] \notin Supported(key)) =>
                  DefaultApplied(key, page', fxModules', currentFxName')
      ]_vars

\* C19: when the stored name of the background effect is no option of the
\* control, initSettings ends with sparkles selected in the control, named
\* as the current effect and running on a visible canvas; and once the
\* settings are initialised the control always has a selection, which is
\* the current effect.
C19_InvalidFxFallsBackToSparkles ==
    [][ /\ (InitSettingsNow /\ storage["backgroundFx"] \notin FxOptions) =>
              /\ page'.fxSelect = "sparkles"
              /\ currentFxName' = "sparkles"
              /\ fxModules'["sparkles"].loops = 1
              /\ Registered(windowResize', "sparkles") = 1
              /\ canvasDisplay' = "block"
        /\ settingsPc' \in {"settings", "ready"} =>
              /\ page'.fxSelect \in FxOptions
              /\ currentFxName' = page'.fxSelect
      ]_vars

\* The page was loaded with an unsupported effect name stored: sparkles
\* runs.
C19_Witness ==
    /\ storage["backgroundFx"] = Unsupported
    /\ settingsPc = "settings"
    /\ page.fxSelect = "sparkles"
    /\ currentFxName = "sparkles"
    /\ fxModules["sparkles"].loops = 1
    /\ fetches = <<>>

\* C20: when the user selects theme t, t is stored under appTheme and the
\* body gets the theme classes of t; initSettings gives the body the theme
\* classes of the stored theme without having started a fetch; and in the
\* step that starts the manifest fetch the body has them.
C20_ThemeRoundTrip ==
    [][ /\ (fxEvent'.seq = fxEvent.seq + 1 /\ fxEvent'.op = "theme") =>
              /\ storage'["appTheme"] = fxEvent'.arg
              /\ ThemeClassesOf(page') = ExpectedThemeClasses(fxEvent'.arg)
        /\ (InitSettingsNow /\ storage["appTheme"] \in ThemeOptions) =>
              /\ ThemeClassesOf(page') =
                     ExpectedThemeClasses(storage["appTheme"])
              /\ fetches' = <<>> /\ loads' = <<>>
        /\ (Len(fetches') > Len(fetches)
              /\ storage["appTheme"] \in ThemeOptions) =>
              /\ settingsPc = "settings"
              /\ ThemeClassesOf(page) =
                     ExpectedThemeClasses(storage["appTheme"])
              /\ page' = page
      ]_vars

\* After a reload with the dark theme stored, the manifest fetch has
\* started and the body carries dark-theme.
C20_Witness ==
    /\ fxEvent.op = "reload"
    /\ storage["appTheme"] = "dark"
    /\ settingsPc = "ready"
    /\ manifestPc = "fetching"
    /\ fetches = <<"chapters.json">>
    /\ ThemeClassesOf(page) = {[stem |-> "dark", suffix |-> "-theme"]}
    /\ page.themeSelect = "dark"

\* The classes of the body that do not end with '-theme'.
OtherClassesOf(pg) == pg.bodyClasses \ ThemeClassesOf(pg)

\* C30: once the settings are initialised the body carries at most one
\* class ending in -theme, the one of the theme stored last (none for
\* light); a theme change leaves the body with exactly the theme class of
\* the selected theme, and the classes that do not end in -theme exactly as
\* they were.
C30_OneThemeClassOthersKept ==
    [][ /\ settingsPc' \in {"settings", "ready"} =>
              /\ Cardinality(ThemeClassesOf(page')) <= 1
              /\ ThemeClassesOf(page') =
                     ExpectedThemeClasses(
                         OrDefault(storage'["appTheme"], "light"))
        /\ (fxEvent'.seq = fxEvent.seq + 1 /\ fxEvent'.op = "theme") =>
              /\ ThemeClassesOf(page') = ExpectedThemeClasses(fxEvent'.arg)
              /\ OtherClassesOf(page') = OtherClassesOf(page)
      ]_vars

\* With a dark background image shown, the user has changed the theme to
\* sepia: the body carries sepia-theme and both background helper classes.
C30_Witness ==
    /\ fxEvent.op = "theme" /\ fxEvent.arg = "sepia"
    /\ page.bodyClasses =
           {[stem |-> "sepia", suffix |-> "-theme"],
            [stem |-> "image-background", suffix |-> ""],
            [stem |-> "dark-image-background", suffix |-> ""]}

====
